---- MODULE Spec2Model ----
(***************************************************************************)
(* Model of the tile-search engine of google-maps-scraper:                 *)
(*   - APIResponseCache  (src/api_cache.py)                                *)
(*   - APIUsageStats and GoogleMapsScraper (src/scraper.py)                *)
(*   - TileGrid (src/tile_grid.py)                                         *)
(*   - run_scraper and scrape_worker (src/web_server.py)                   *)
(*   - RateLimiter (src/rate_limiter.py)                                   *)
(*   - BusinessStore (src/storage.py)                                      *)
(* Time is an integer clock `now` (time.time()); a cache file is the       *)
(* sequence of buffer-loads json.dump flushed into it.                     *)
(***************************************************************************)
EXTENDS Integers, Sequences, FiniteSets, TLC

VARIABLES
    files,        \* cache_dir: cache key -> content of <key>.json
    now,          \* time.time()
    stored,       \* history: (url, non-credential params) -> last put not yet removed
    lastOp,       \* history: the last cache operation and what its caller saw
    usage,        \* GoogleMapsScraper.usage (APIUsageStats)
    _place_cache,  \* keys of GoogleMapsScraper._place_cache
    call,         \* frame of the running search_tile call
    reqLog,       \* history: requests resolved by the running search_tile call
    cacheLog,     \* history: cache calls made by the running search_tile call
    lastReq,      \* history: the request resolved by the last step
    radii,        \* history: (tile, multiplier, radius) of the requests sent
    returned,     \* history: the place_ids search_tile has returned so far
    tile_size,    \* TileGrid.tile_size
    tiles,        \* TileGrid.tiles
    _tile_map,    \* TileGrid._tile_map: tile id -> tile
    gridLog,      \* history: the last operation on the grid
    job,          \* the ScrapingJob of the run
    seen_place_ids,  \* scrape_worker's seen_place_ids
    _stop_flags,  \* JobManager._stop_flags[job_id]
    wk,           \* frame of scrape_worker
    report,       \* history: the cost and the savings last read from usage
    limiter,      \* the RateLimiter and the position of each acquire() caller
    grants,       \* history: the last_request_time each grant recorded
    outdir,       \* BusinessStore's output_dir: file name -> records written
    business_store, \* the BusinessStore in use
    lastAdd,      \* history: the last BusinessStore.add and what it returned
    scan,         \* frame of a create_grid call run in floating point
    fetched       \* history: cache key -> time of the network call cached

cacheVars   == <<files, now, stored, lastOp>>
scraperVars == <<usage, _place_cache, call, reqLog, cacheLog, lastReq, radii,
                 returned>>
gridVars    == <<tile_size, tiles, _tile_map, gridLog>>
workerVars  == <<job, seen_place_ids, _stop_flags, wk>>
reportVars  == <<report>>
limiterVars == <<limiter, grants>>
storeVars   == <<outdir, business_store, lastAdd>>
scanVars    == <<scan>>
vars        == <<files, now, stored, lastOp, usage, _place_cache, call, reqLog,
                 cacheLog, lastReq, radii, returned, tile_size, tiles,
                 _tile_map, gridLog, job, seen_place_ids, _stop_flags, wk,
                 report, limiter, grants, outdir, business_store, lastAdd,
                 scan,
                 fetched>>

----------------------------------------------------------------------------
(* Bounds *)

MaxTime == 2          \* the clock stops advancing here
ttl_seconds == 1      \* APIResponseCache(ttl_seconds=...), small for checking

None == "None"        \* Python's None where a string is expected

----------------------------------------------------------------------------
(* API responses: {status, results[], next_page_token?} *)

\* a place record of results[]: its place_id and the great-circle distance of
\* its geometry.location from the search center, in km
Place(id, km) == [place_id |-> id, km |-> km, ok |-> TRUE]

\* a record the processing loop chokes on (geometry: null, a non-string type)
Malformed == [place_id |-> "bad", km |-> 0, ok |-> FALSE]

Response(status, results, token) ==
    [status |-> status, results |-> results, next_page_token |-> token]

RespA == Response("OK", <<Place("p1", 1)>>, None)
RespB == Response("OK", <<Place("p2", 1)>>, "t1")

\* responses handed to put by the cache's direct callers
Responses == {RespA, RespB}

----------------------------------------------------------------------------
(* APIResponseCache *)

Miss == [hit |-> FALSE]
Hit(response) == [hit |-> TRUE, response |-> response]

Restrict(f, S) == [k \in S |-> f[k]]

\* clean_params of _cache_key: params without the 'key' item
clean_params(params) == Restrict(params, DOMAIN params \ {"key"})

\* a plausible slip: the credential is hashed with the rest
cache_key_with_credential(url, params) == [url |-> url, params |-> params]

\* a plausible slip: only the url is hashed
cache_key_url_only(url, params) == [url |-> url, params |-> <<>>]

\* _cache_key: sha256 of "url|json.dumps(clean_params, sort_keys=True)";
\* the digest is taken to be collision free, so the key is the pair it hashes
\* (a TLA+ function has no item order, which is what sort_keys canonicalises)
_cache_key(url, params) == [url |-> url, params |-> clean_params(params)]

\* json.dump(entry, f): the text reaches the file one buffer-load at a time
Dump(cached_at, url, response) ==
    << [kind |-> "head", cached_at |-> cached_at, url |-> url,
        status |-> response.status],
       [kind |-> "tail", results |-> response.results,
        next_page_token |-> response.next_page_token] >>

\* json.load(f): a complete entry parses to the dict that was dumped, a file
\* holding another JSON value parses to that value, anything else (an empty
\* or truncated file) is a JSONDecodeError
Load(content) ==
    IF Len(content) = 2 /\ content[1].kind = "head" /\ content[2].kind = "tail"
    THEN [type |-> "dict",
          cached_at |-> content[1].cached_at,
          response |-> Response(content[1].status, content[2].results,
                                content[2].next_page_token)]
    ELSE IF Len(content) = 1 /\ content[1].kind = "list"
    THEN [type |-> "list"]
    ELSE [type |-> "JSONDecodeError"]

Remove(fs, key) == Restrict(fs, DOMAIN fs \ {key})

Store(fs, key, content) ==
    [k \in DOMAIN fs \cup {key} |-> IF k = key THEN content ELSE fs[k]]

GetReturn(ret, fs, removed) ==
    [ret |-> ret, raised |-> None, files |-> fs, removed |-> removed]

\* a plausible slip: an entry never expires
expired_never(t, entry) == FALSE

\* a plausible slip: an entry is dropped as soon as its age reaches the TTL
expired_at_ttl(t, entry) == t - entry.cached_at >= ttl_seconds

\* the expiry test of get
expired(t, entry) == t - entry.cached_at > ttl_seconds

\* a plausible slip: a stale entry is reported as a miss but left on disk
drop_stale_keep_file(fs, key) == fs

\* the os.remove(path) of get
drop_stale(fs, key) == Remove(fs, key)

\* get(url, params) run at time t on directory fs; fault is the I/O error the
\* operating system raises during the call, if any
get(fs, t, url, params, fault) ==
    LET key == _cache_key(url, params) IN
    IF key \notin DOMAIN fs THEN GetReturn(Miss, fs, FALSE)
    ELSE IF fault = "read" THEN GetReturn(Miss, fs, FALSE)
    ELSE LET entry == Load(fs[key]) IN
         IF entry.type = "JSONDecodeError" THEN GetReturn(Miss, fs, FALSE)
         ELSE IF entry.type # "dict"
         THEN [ret |-> Miss, raised |-> "AttributeError", files |-> fs,
               removed |-> FALSE]
         ELSE IF expired(t, entry)
         THEN IF fault = "remove" THEN GetReturn(Miss, fs, FALSE)
              ELSE GetReturn(Miss, drop_stale(fs, key), TRUE)
         ELSE GetReturn(Hit(entry.response), fs, FALSE)

\* put(url, params, response) run at time t; written is how far the write
\* got: -1 when open() itself failed, 0..1 buffer-loads when a later write
\* failed (the file was truncated by open(path, 'w')), 2 when it completed
put(fs, t, url, params, response, written) ==
    LET key == _cache_key(url, params) IN
    IF written = -1 THEN fs
    ELSE Store(fs, key, SubSeq(Dump(t, url, response), 1, written))

\* a plausible slip: one try around the whole loop, so the first failing
\* file ends the clearing
clear_abort_on_failure(fs, failing) ==
    [files |-> IF failing = {} THEN Restrict(fs, {}) ELSE fs, raised |-> None]

\* clear(): every file is removed except those whose os.remove fails
clear(fs, failing) ==
    [files |-> Restrict(fs, DOMAIN fs \cap failing), raised |-> None]

\* size: the number of .json files in the directory
size(fs) == Cardinality(DOMAIN fs)

----------------------------------------------------------------------------
(* The cache driven by its direct callers *)

TextSearchUrl == "textsearch/json"
DetailsUrl == "details/json"

Credentials == {"KEY_A", "KEY_B"}

\* the requests of the callers: one logical request under two credentials,
\* one that differs from it in a non-credential param, one in the url
CacheRequests ==
    {<<TextSearchUrl, [query |-> "a", key |-> c]>> : c \in Credentials} \cup
    {<<TextSearchUrl, [query |-> "b", key |-> "KEY_A"]>>,
     <<DetailsUrl, [query |-> "a", key |-> "KEY_A"]>>}

\* what the specification calls the same logical request: the url and the
\* params other than the credential
NonCredential(url, params) ==
    <<url, {<<k, params[k]>> : k \in DOMAIN params \ {"key"}}>>

NoPrior == [at |-> -1]
NoResponse == [status |-> None]

Prior(st, url, params) ==
    IF NonCredential(url, params) \in DOMAIN st
    THEN st[NonCredential(url, params)] ELSE NoPrior

Op(op, url, params, response, fault, written, failing, ret, raised, fs) ==
    [op |-> op, url |-> url, params |-> params, response |-> response,
     fault |-> fault, written |-> written, failing |-> failing, at |-> now,
     prior |-> Prior(stored, url, params), ret |-> ret, raised |-> raised,
     sizeBefore |-> size(files), sizeAfter |-> size(fs)]

NoOp == [op |-> None]

\* a call of put whose write gets as far as `written` buffer-loads
PutW(url, params, response, written) ==
    LET fs == put(files, now, url, params, response, written)
        id == NonCredential(url, params) IN
    /\ files' = fs
    /\ stored' = IF written = 2
                  THEN Store(stored, id, [at |-> now, url |-> url,
                                          params |-> params,
                                          response |-> response])
                  ELSE IF written = -1 THEN stored
                  ELSE Remove(stored, id)
    /\ lastOp' = Op("put", url, params, response,
                    IF written = 2 THEN None ELSE "write", written, {},
                    Miss, None, fs)
    /\ UNCHANGED <<reportVars, limiterVars, storeVars, scanVars, fetched,
                   now, scraperVars, gridVars, workerVars>>

\* a call of get during which the operating system raises `fault`
GetF(url, params, fault) ==
    LET r == get(files, now, url, params, fault) IN
    /\ files' = r.files
    /\ stored' = IF r.removed THEN Remove(stored, NonCredential(url, params))
                  ELSE stored
    /\ lastOp' = Op("get", url, params, NoResponse, fault, 0, {}, r.ret,
                    r.raised, r.files)
    /\ UNCHANGED <<reportVars, limiterVars, storeVars, scanVars, fetched,
                   now, scraperVars, gridVars, workerVars>>

\* a call of clear in which os.remove fails for the files in `failing`
ClearF(failing) ==
    LET r == clear(files, failing) IN
    /\ files' = r.files
    /\ stored' = Restrict(stored, {id \in DOMAIN stored :
                     _cache_key(stored[id].url, stored[id].params) \in failing})
    /\ lastOp' = Op("clear", None, <<>>, NoResponse,
                    IF failing = {} THEN None ELSE "remove", 0, failing,
                    Miss, r.raised, r.files)
    /\ UNCHANGED <<reportVars, limiterVars, storeVars, scanVars, fetched,
                   now, scraperVars, gridVars, workerVars>>

Put(url, params, response) == PutW(url, params, response, 2)

Get(url, params) == GetF(url, params, None)

Clear == ClearF({})

\* put hits an OSError: in open() (nothing written) or in a later write
PutFault(url, params, response) ==
    \E written \in -1 .. 1 : PutW(url, params, response, written)

\* get hits an OSError while reading the file or while removing a stale one
GetFault(url, params) ==
    /\ _cache_key(url, params) \in DOMAIN files
    /\ \E fault \in {"read", "remove"} : GetF(url, params, fault)

\* clear hits an OSError on some of the files
ClearFault ==
    \E failing \in SUBSET DOMAIN files : failing # {} /\ ClearF(failing)

\* the cache directory is shared: another program leaves under an entry's
\* name a file that is valid JSON but not an entry record (here: a list)
ForeignFile(url, params) ==
    /\ files' = Store(files, _cache_key(url, params), <<[kind |-> "list"]>>)
    /\ stored' = Remove(stored, NonCredential(url, params))
    /\ lastOp' = [op |-> "foreign"]
    /\ UNCHANGED <<reportVars, limiterVars, storeVars, scanVars, fetched,
                   now, scraperVars, gridVars, workerVars>>

\* time.time() moves on between calls
Tick ==
    /\ now < MaxTime
    /\ now' = now + 1
    /\ UNCHANGED <<reportVars, limiterVars, storeVars, scanVars, fetched,
                   files, stored, lastOp, scraperVars, gridVars, workerVars>>

APIUsageStats == [text_search_calls |-> 0, text_search_cache_hits |-> 0,
                  place_details_calls |-> 0, place_details_cache_hits |-> 0]

Idle == [pc |-> "idle"]

InitScraper ==
    /\ usage = APIUsageStats
    /\ _place_cache = {}
    /\ call = Idle
    /\ reqLog = <<>>
    /\ cacheLog = <<>>
    /\ lastReq = NoOp
    /\ radii = {}
    /\ returned = <<>>
    /\ report = NoOp
    /\ fetched = <<>>

\* APIResponseCache.__init__ on a fresh directory
InitCache ==
    /\ files = <<>>
    /\ now = 0
    /\ stored = <<>>
    /\ lastOp = NoOp

\* coordinates are counted in 1/160 of a degree, so that every step and
\* every midpoint the grids below need is a whole number: 80 is 0.5 degrees
TileSizes == {80, 160}

\* TileGrid(tile_size)
InitGrid ==
    /\ tile_size \in TileSizes
    /\ tiles = <<>>
    /\ _tile_map = <<>>
    /\ gridLog = NoOp

NoJob == [status |-> None]

\* the server before a job is submitted
InitWorker ==
    /\ job = NoJob
    /\ seen_place_ids = {}
    /\ _stop_flags = FALSE
    /\ wk = Idle

min_delay == 1        \* RateLimiter(min_delay=...), in ticks of the clock

\* the coroutines that call acquire()
Callers == {"a", "b", "c"}

\* RateLimiter(min_delay, max_concurrent): last_request_time is <<>> for
\* None; _semaphore is the semaphore's value, _lock whether the lock is held;
\* pc and wake are the position of each caller and the time its sleep ends
RateLimiter(max_concurrent) ==
    [max_concurrent |-> max_concurrent, last_request_time |-> <<>>,
     _semaphore |-> max_concurrent, _lock |-> FALSE,
     pc |-> [c \in Callers |-> "idle"], wake |-> [c \in Callers |-> 0]]

\* RateLimiter() with its default max_concurrent
InitLimiter ==
    /\ limiter = RateLimiter(1)
    /\ grants = <<>>

\* the place_ids of a list of business records
Ids(records) == {records[n].place_id : n \in DOMAIN records}

\* _load_existing: the records of <output_dir>/businesses.json, if it exists
_load_existing(dir) ==
    IF "businesses.json" \in DOMAIN dir THEN dir["businesses.json"] ELSE <<>>

\* BusinessStore(output_dir): businesses is the dict in insertion order;
\* prior is history, the place_ids that save() had written to the directory
\* when the store was made
BusinessStore(dir) ==
    [businesses |-> _load_existing(dir),
     _place_ids |-> Ids(_load_existing(dir)),
     prior |-> IF "businesses_latest.json" \in DOMAIN dir
               THEN Ids(dir["businesses_latest.json"]) ELSE {}]

\* a store over an output directory no run has written to
InitStore ==
    /\ outdir = <<>>
    /\ business_store = BusinessStore(<<>>)
    /\ lastAdd = NoOp

\* no create_grid call is under way
InitScan == scan = Idle

Init ==
    /\ InitCache /\ InitScraper /\ InitGrid /\ InitWorker /\ InitLimiter
    /\ InitStore /\ InitScan

NextCache ==
    \/ \E r \in CacheRequests, resp \in Responses : Put(r[1], r[2], resp)
    \/ \E r \in CacheRequests : Get(r[1], r[2])
    \/ Clear
    \/ Tick

SpecCache == Init /\ [][NextCache]_vars

\* the requests of the run with I/O faults: two unrelated logical requests
FaultRequests ==
    {<<TextSearchUrl, [query |-> "a", key |-> "KEY_A"]>>,
     <<DetailsUrl, [query |-> "a", key |-> "KEY_A"]>>}

NextCacheFault ==
    \/ \E r \in FaultRequests, resp \in Responses : Put(r[1], r[2], resp)
    \/ \E r \in FaultRequests : Get(r[1], r[2])
    \/ Clear
    \/ Tick
    \/ \E r \in FaultRequests, resp \in Responses : PutFault(r[1], r[2], resp)
    \/ \E r \in FaultRequests : GetFault(r[1], r[2])
    \/ ClearFault
    \/ \E r \in FaultRequests : ForeignFile(r[1], r[2])

SpecCacheFault == Init /\ [][NextCacheFault]_vars

----------------------------------------------------------------------------
(* GoogleMapsScraper: search_tile and get_business_details *)

MaxRequests == 4      \* no call starts once this many requests were resolved
max_radius_km == 5    \* the max_radius_km argument of the filtered calls
max_pages == 3

api_key == "KEY_A"    \* os.getenv('GOOGLE_MAPS_API_KEY')

\* a tile as search_tile sees it: the "lat,lng" of its center and
\* base_radius, half its diagonal in metres
Tile(id, location, base_radius) ==
    [id |-> id, location |-> location, base_radius |-> base_radius]

Tiles == {Tile("tile_0", "0.25,0.25", 39000)}

\* the tiles of the radius run: a coarse one and a fine one
RadiusTiles == {Tile("tile_0", "0.25,0.25", 39001),
                Tile("tile_1", "0.005,0.005", 777)}

Queries == {"cafe"}

\* api_radius_multiplier, counted in halves: 2 is 1.0, 3 is 1.5
Multipliers == {2}

\* the multipliers the expansion controller walks through: 1.0, 1.5 .. 3.0
ExpansionMultipliers == 2 .. 6

\* the arguments of search_tile that default to None, when supplied
AllSupplied == {"center_lat", "center_lng", "max_radius_km"}

\* all three, or max_radius_km without a whole center
SuppliedArgs == {{"center_lat", "max_radius_km"}, AllSupplied}

\* a plausible slip: the 50 km cap is forgotten
search_radius_uncapped(tile, mult2) == (tile.base_radius * mult2) \div 2

\* search_radius = min(int(base_radius * api_radius_multiplier), 50000)
search_radius(tile, mult2) ==
    LET r == (tile.base_radius * mult2) \div 2 IN
    IF r < 50000 THEN r ELSE 50000

PageTokens == {"t1", "t2"}

\* p1 lies exactly max_radius_km from the search center, p2 just beyond
ResultLists ==
    { <<Place("p1", max_radius_km)>>,
      <<Place("p1", max_radius_km), Malformed, Place("p2", max_radius_km + 1)>> }

\* what the text-search endpoint may answer
ApiResponses ==
    {Response("OK", res, tok) : res \in ResultLists,
                                 tok \in PageTokens \cup {None}} \cup
    {Response("ZERO_RESULTS", <<>>, None),
     Response("INVALID_REQUEST", <<>>, None)}

\* what the details endpoint may answer
DetailResponses ==
    {Response("OK", <<>>, None), Response("NOT_FOUND", <<>>, None)}

\* the businesses the controller asks details for
DetailPlaces == {"p1"}

\* requests.get(...).json(): a response, or an exception (network failure,
\* timeout, unparseable body)
Raised == [raised |-> TRUE]
Answer(response) == [raised |-> FALSE, response |-> response]

NetOutcomes(responses) == {Raised} \cup {Answer(r) : r \in responses}

\* a plausible slip: the location is also written into the query text
text_search_params_near(frame) ==
    IF frame.next_page_token # None
    THEN [query |-> frame.query \o " near " \o frame.tile.location,
          location |-> frame.tile.location,
          radius |-> frame.radius, key |-> api_key,
          pagetoken |-> frame.next_page_token]
    ELSE [query |-> frame.query \o " near " \o frame.tile.location,
          location |-> frame.tile.location,
          radius |-> frame.radius, key |-> api_key]

\* the params dict search_tile builds for a page
text_search_params(frame) ==
    IF frame.next_page_token # None
    THEN [query |-> frame.query, location |-> frame.tile.location,
          radius |-> frame.radius, key |-> api_key,
          pagetoken |-> frame.next_page_token]
    ELSE [query |-> frame.query, location |-> frame.tile.location,
          radius |-> frame.radius, key |-> api_key]

details_params(place_id) ==
    [place_id |-> place_id, fields |-> "formatted_phone_number,website",
     key |-> api_key]

\* a plausible slip: a cache hit is booked as a real call
count_hit_as_call(us, category, source) ==
    [us EXCEPT ![category \o "_calls"] = @ + 1]

\* the += 1 on the usage counter of the category
count(us, category, source) ==
    IF source = "cache"
    THEN [us EXCEPT ![category \o "_cache_hits"] = @ + 1]
    ELSE [us EXCEPT ![category \o "_calls"] = @ + 1]

\* a plausible slip: every answer to a first-page request is cached
should_cache_any_status(result, token) == token = None

\* result.get('status') == 'OK' and not next_page_token
should_cache(result, token) == result.status = "OK" /\ token = None

\* a plausible slip: a later page that fails is asked for again
after_page_retry(frame, result) ==
    IF result.status # "OK"
    THEN IF frame.page_count = 0
         THEN [frame EXCEPT !.pc = "returned"]
         ELSE frame
    ELSE LET f == [frame EXCEPT !.all_places = @ \o result.results,
                                !.next_page_token = result.next_page_token]
         IN  IF result.next_page_token = None
             THEN [f EXCEPT !.pc = "process"]
             ELSE IF frame.page_count + 1 >= max_pages
             THEN [f EXCEPT !.page_count = @ + 1, !.pc = "process"]
             ELSE [f EXCEPT !.page_count = @ + 1]

\* a plausible slip: every status other than OK returns the empty list
after_page_return_empty(frame, result) ==
    IF result.status # "OK"
    THEN [frame EXCEPT !.pc = "returned"]
    ELSE LET f == [frame EXCEPT !.all_places = @ \o result.results,
                                !.next_page_token = result.next_page_token]
         IN  IF result.next_page_token = None
             THEN [f EXCEPT !.pc = "process"]
             ELSE IF frame.page_count + 1 >= max_pages
             THEN [f EXCEPT !.page_count = @ + 1, !.pc = "process"]
             ELSE [f EXCEPT !.page_count = @ + 1]

\* a plausible slip: pagination ends with the first page
after_page_single(frame, result) ==
    IF result.status # "OK"
    THEN [frame EXCEPT !.pc = "returned"]
    ELSE [frame EXCEPT !.all_places = @ \o result.results,
                       !.next_page_token = result.next_page_token,
                       !.pc = "process"]

\* the rest of the loop body once `result` is known: the status checks, the
\* token hand-over and the page count
after_page(frame, result) ==
    IF result.status # "OK"
    THEN IF result.status = "INVALID_REQUEST" /\ frame.next_page_token # None
         THEN [frame EXCEPT !.pc = "process"]
         ELSE IF frame.page_count = 0
         THEN [frame EXCEPT !.pc = "returned"]
         ELSE [frame EXCEPT !.pc = "process"]
    ELSE LET f == [frame EXCEPT !.all_places = @ \o result.results,
                                !.next_page_token = result.next_page_token]
         IN  IF result.next_page_token = None
             THEN [f EXCEPT !.pc = "process"]
             ELSE IF frame.page_count + 1 >= max_pages
             THEN [f EXCEPT !.page_count = @ + 1, !.pc = "process"]
             ELSE [f EXCEPT !.page_count = @ + 1]

\* a plausible slip: a place exactly max_radius_km away is dropped too
too_far_at_boundary(supplied, place) ==
    /\ supplied = AllSupplied
    /\ place.km >= max_radius_km

\* the distance test of the loop body: all three arguments are not None and
\* haversine_distance(center_lat, center_lng, lat, lng) > max_radius_km
too_far(supplied, place) ==
    /\ "max_radius_km" \in supplied
    /\ "center_lat" \in supplied
    /\ "center_lng" \in supplied
    /\ place.km > max_radius_km

RECURSIVE process_places(_, _, _, _)

\* a plausible slip: the try encloses the loop, so the first malformed
\* record ends it
process_places_abort(places, supplied, seen, out) ==
    IF places = <<>> THEN [businesses |-> out, place_cache |-> seen]
    ELSE LET place == Head(places) IN
         IF ~place.ok
         THEN [businesses |-> out, place_cache |-> seen]
         ELSE IF too_far(supplied, place) \/ place.place_id \in seen
         THEN process_places(Tail(places), supplied, seen, out)
         ELSE process_places(Tail(places), supplied,
                             seen \cup {place.place_id},
                             Append(out, place.place_id))

\* the filter-and-process loop over all_places: (businesses, _place_cache)
process_places(places, supplied, seen, out) ==
    IF places = <<>> THEN [businesses |-> out, place_cache |-> seen]
    ELSE LET place == Head(places) IN
         IF ~place.ok    \* the except clause of the loop body: continue
         THEN process_places(Tail(places), supplied, seen, out)
         ELSE IF too_far(supplied, place)
         THEN process_places(Tail(places), supplied, seen, out)
         ELSE IF place.place_id \in seen
         THEN process_places(Tail(places), supplied, seen, out)
         ELSE process_places(Tail(places), supplied,
                             seen \cup {place.place_id},
                             Append(out, place.place_id))

\* a plausible slip: what the earlier pages gathered is still processed
after_raise_process(frame) ==
    [frame EXCEPT !.pc = IF frame.page_count = 0 THEN "returned"
                         ELSE "process"]

\* requests.get or response.json() raised: the outer except logs and the
\* function returns businesses, still empty
after_raise(frame) == [frame EXCEPT !.pc = "returned"]

TotalRequests(us) ==
    us.text_search_calls + us.text_search_cache_hits
        + us.place_details_calls + us.place_details_cache_hits

NotInCall == call.pc \in {"idle", "returned"}

\* search_tile is called: the statements up to the while loop
SearchTileStart(tile, query, mult2, supplied) ==
    /\ NotInCall
    /\ TotalRequests(usage) + max_pages <= MaxRequests
    /\ call' = [pc |-> "page", tile |-> tile, query |-> query,
                mult2 |-> mult2, radius |-> search_radius(tile, mult2),
                supplied |-> supplied, seen0 |-> _place_cache,
                next_page_token |-> None, page_count |-> 0,
                all_places |-> <<>>, businesses |-> <<>>]
    /\ reqLog' = <<>>
    /\ cacheLog' = <<>>
    /\ UNCHANGED <<reportVars, limiterVars, storeVars, scanVars, fetched,
                   cacheVars, usage, _place_cache, lastReq, radii, returned,
                   gridVars, workerVars>>

\* what the caller waits for before requests.get: time.sleep(0.5) when a
\* page token is sent, and nothing else; get_business_details sends no token
waits_before(token) == IF token # None THEN {"page_token_delay"} ELSE {}

\* a resolved page request: what was asked and what came back
ReqEntry(frame, source, status, token_out, results) ==
    [page |-> frame.page_count + 1, pagetoken |-> frame.next_page_token,
     params |-> text_search_params(frame),
     source |-> source, status |-> status, token_out |-> token_out,
     results |-> results, waits |-> waits_before(frame.next_page_token)]

Sent(frame) ==
    [tile |-> frame.tile, mult2 |-> frame.mult2,
     radius |-> text_search_params(frame).radius]

CacheCall(op, params, status) ==
    [op |-> op, params |-> params, status |-> status]

Req(category, source, netCalls, raised, token, key) ==
    [category |-> category, source |-> source, netCalls |-> netCalls,
     raised |-> raised, usageBefore |-> usage,
     waits |-> waits_before(token), key |-> key]

\* one iteration of the while loop: the page is resolved from the cache or
\* by the network call, whose outcome is `net`; the time.sleep(0.5) before a
\* page-token request is time that Tick lets pass
SearchTilePage(net) ==
    /\ call.pc = "page"
    /\ LET token  == call.next_page_token
           params == text_search_params(call)
           looked == token = None
           g      == IF looked THEN get(files, now, TextSearchUrl, params, None)
                     ELSE GetReturn(Miss, files, FALSE)
           gets   == IF looked THEN <<CacheCall("get", params, None)>> ELSE <<>>
       IN  IF g.ret.hit
           THEN /\ files' = g.files
                /\ usage' = count(usage, "text_search", "cache")
                /\ call' = after_page(call, g.ret.response)
                /\ reqLog' = Append(reqLog,
                       ReqEntry(call, "cache", g.ret.response.status,
                                g.ret.response.next_page_token,
                                g.ret.response.results))
                /\ cacheLog' = cacheLog \o gets
                /\ lastReq' = Req("text_search", "cache", 0, FALSE, token,
                                  NonCredential(TextSearchUrl, params))
                /\ radii' = radii
                /\ fetched' = fetched
           ELSE IF net.raised   \* caught by the outer except: return businesses
           THEN /\ files' = g.files
                /\ usage' = usage
                /\ call' = after_raise(call)
                /\ fetched' = fetched
                /\ reqLog' = Append(reqLog,
                       ReqEntry(call, "network", "raised", None, <<>>))
                /\ cacheLog' = cacheLog \o gets
                /\ lastReq' = Req("text_search", "network", 1, TRUE, token,
                                  NonCredential(TextSearchUrl, params))
                /\ radii' = radii \cup {Sent(call)}
           ELSE LET result == net.response
                    store  == should_cache(result, token) IN
                /\ files' = IF store
                            THEN put(g.files, now, TextSearchUrl, params,
                                     result, 2)
                            ELSE g.files
                /\ usage' = count(usage, "text_search", "network")
                /\ call' = after_page(call, result)
                /\ fetched' = IF store
                              THEN Store(fetched,
                                         NonCredential(TextSearchUrl, params),
                                         now)
                              ELSE fetched
                /\ reqLog' = Append(reqLog,
                       ReqEntry(call, "network", result.status,
                                result.next_page_token, result.results))
                /\ cacheLog' = cacheLog \o gets \o
                       (IF store
                        THEN <<CacheCall("put", params, result.status)>>
                        ELSE <<>>)
                /\ lastReq' = Req("text_search", "network", 1, FALSE, token,
                                  NonCredential(TextSearchUrl, params))
                /\ radii' = radii \cup {Sent(call)}
    /\ UNCHANGED <<reportVars, limiterVars, storeVars, scanVars,
                   now, stored, lastOp, _place_cache, returned, gridVars,
                   workerVars>>

\* the filter-and-process loop and the return
SearchTileProcess ==
    /\ call.pc = "process"
    /\ LET r == process_places(call.all_places, call.supplied, _place_cache,
                               <<>>)
       IN  /\ call' = [call EXCEPT !.pc = "returned",
                                   !.businesses = r.businesses]
           /\ _place_cache' = r.place_cache
           /\ returned' = returned \o r.businesses
    /\ UNCHANGED <<reportVars, limiterVars, storeVars, scanVars, fetched,
                   cacheVars, usage, reqLog, cacheLog, lastReq, radii,
                   gridVars, workerVars>>

\* get_business_details(business), called between two search_tile calls
GetBusinessDetails(place_id, net) ==
    /\ NotInCall
    /\ TotalRequests(usage) < MaxRequests
    /\ LET params == details_params(place_id)
           g == get(files, now, DetailsUrl, params, None)
       IN  IF g.ret.hit
           THEN /\ files' = g.files
                /\ fetched' = fetched
                /\ usage' = count(usage, "place_details", "cache")
                /\ lastReq' = Req("place_details", "cache", 0, FALSE, None,
                                  NonCredential(DetailsUrl, params))
           ELSE IF net.raised
           THEN /\ files' = g.files
                /\ fetched' = fetched
                /\ usage' = usage
                /\ lastReq' = Req("place_details", "network", 1, TRUE, None,
                                  NonCredential(DetailsUrl, params))
           ELSE /\ files' = IF net.response.status = "OK"
                            THEN put(g.files, now, DetailsUrl, params,
                                     net.response, 2)
                            ELSE g.files
                /\ fetched' = IF net.response.status = "OK"
                              THEN Store(fetched,
                                         NonCredential(DetailsUrl, params),
                                         now)
                              ELSE fetched
                /\ usage' = count(usage, "place_details", "network")
                /\ lastReq' = Req("place_details", "network", 1, FALSE, None,
                                  NonCredential(DetailsUrl, params))
    /\ UNCHANGED <<reportVars, limiterVars, storeVars, scanVars,
                   now, stored, lastOp, _place_cache, call, reqLog, cacheLog,
                   radii, returned, gridVars, workerVars>>

NextScraper ==
    \/ \E tile \in Tiles, query \in Queries, mult2 \in Multipliers,
          supplied \in SuppliedArgs :
             SearchTileStart(tile, query, mult2, supplied)
    \/ \E net \in NetOutcomes(ApiResponses) : SearchTilePage(net)
    \/ SearchTileProcess
    \/ \E place_id \in DetailPlaces, net \in NetOutcomes(DetailResponses) :
          GetBusinessDetails(place_id, net)
    \/ Tick

SpecScraper == Init /\ [][NextScraper]_vars

\* the radius run: every tile under every multiplier of the controller,
\* against an endpoint that has nothing to report
NextRadius ==
    \/ \E tile \in RadiusTiles, query \in Queries,
          mult2 \in ExpansionMultipliers :
             SearchTileStart(tile, query, mult2, {})
    \/ SearchTilePage(Answer(Response("ZERO_RESULTS", <<>>, None)))

SpecRadius == Init /\ [][NextRadius]_vars

----------------------------------------------------------------------------
(* APIUsageStats: the estimated cost and the estimated savings *)

\* API_COSTS, in cents per 1000 calls: 32.00 and 17.00 USD
API_COSTS == [text_search |-> 3200, place_details |-> 1700]

\* round(x, 4) of an amount x given in 1/100000 USD, as an amount in
\* 1/10000 USD; ties go to the even neighbour
round4(x) ==
    LET quot == x \div 10
        rest == x % 10
    IN  IF rest > 5 \/ (rest = 5 /\ quot % 2 = 1) THEN quot + 1 ELSE quot

\* (calls / 1000) * API_COSTS[...] summed over the two categories and
\* rounded: calls times cents per 1000 calls is an amount in 1/100000 USD.
\* The floating-point sum differs from the exact amount by far less than
\* half of 1/10000 USD, so round() returns the float of the exact amount.
estimated_cost_usd(us) ==
    round4(us.text_search_calls * API_COSTS.text_search
               + us.place_details_calls * API_COSTS.place_details)

\* a plausible slip: the savings are computed over the calls
estimated_savings_usd_over_calls(us) ==
    round4(us.text_search_calls * API_COSTS.text_search
               + us.place_details_calls * API_COSTS.place_details)

estimated_savings_usd(us) ==
    round4(us.text_search_cache_hits * API_COSTS.text_search
               + us.place_details_cache_hits * API_COSTS.place_details)

\* the counter values the properties are read at
CounterValues == {0, 1, 500, 1000}

\* APIUsageStats(text_search_calls=..., ...) followed by a read of the two
\* properties
ReadCosts(ts_calls, ts_hits, pd_calls, pd_hits) ==
    LET us == [text_search_calls |-> ts_calls,
               text_search_cache_hits |-> ts_hits,
               place_details_calls |-> pd_calls,
               place_details_cache_hits |-> pd_hits]
    IN  /\ usage' = us
        /\ report' = [estimated_cost_usd |-> estimated_cost_usd(us),
                      estimated_savings_usd |-> estimated_savings_usd(us)]
        /\ UNCHANGED <<storeVars, scanVars, fetched,
                       limiterVars, cacheVars, _place_cache, call, reqLog,
                       cacheLog, lastReq, radii, returned, gridVars,
                       workerVars>>

NextUsage ==
    \E ts_calls \in CounterValues, ts_hits \in CounterValues,
       pd_calls \in CounterValues, pd_hits \in CounterValues :
          ReadCosts(ts_calls, ts_hits, pd_calls, pd_hits)

SpecUsage == Init /\ [][NextUsage]_vars

----------------------------------------------------------------------------
(* RateLimiter.acquire() and its callers *)

\* RateLimiter(min_delay, max_concurrent=2) in place of the default one,
\* before any caller uses it
NewRateLimiter(max_concurrent) ==
    /\ limiter = RateLimiter(1)
    /\ grants = <<>>
    /\ max_concurrent # 1
    /\ limiter' = RateLimiter(max_concurrent)
    /\ UNCHANGED <<storeVars, scanVars, fetched,
                   grants, reportVars, cacheVars, scraperVars, gridVars,
                   workerVars>>

\* a coroutine calls acquire() and reaches `async with self._semaphore`
Acquire(c) ==
    /\ limiter.pc[c] = "idle"
    /\ limiter' = [limiter EXCEPT !.pc[c] = "semaphore"]
    /\ UNCHANGED <<storeVars, scanVars, fetched,
                   grants, reportVars, cacheVars, scraperVars, gridVars,
                   workerVars>>

\* the semaphore lets the caller in
EnterSemaphore(c) ==
    /\ limiter.pc[c] = "semaphore"
    /\ limiter._semaphore > 0
    /\ limiter' = [limiter EXCEPT !._semaphore = @ - 1, !.pc[c] = "lock"]
    /\ UNCHANGED <<storeVars, scanVars, fetched,
                   grants, reportVars, cacheVars, scraperVars, gridVars,
                   workerVars>>

\* a plausible slip: the caller does not wait
wait_time_none(last, t) == 0

\* wait_time = min_delay - elapsed, where elapsed = time.time() - last
wait_time(last, t) == min_delay - (t - last)

\* what the grant records
Grant(c, t) == [caller |-> c, at |-> t]

\* last_request_time = time.time(), and both context managers are left: the
\* caller goes on to its outbound call
granted(l, c, t) ==
    [l EXCEPT !.last_request_time = <<t>>, !._lock = FALSE,
              !._semaphore = @ + 1, !.pc[c] = "calling"]

\* the caller takes the lock and runs up to its first suspension: the sleep
\* when the last grant is younger than min_delay, else the end of acquire()
EnterLock(c) ==
    /\ limiter.pc[c] = "lock"
    /\ ~limiter._lock
    /\ IF /\ limiter.last_request_time # <<>>
          /\ now - limiter.last_request_time[1] < min_delay
       THEN /\ limiter' = [limiter EXCEPT
                   !._lock = TRUE, !.pc[c] = "sleep",
                   !.wake[c] = now + wait_time(limiter.last_request_time[1],
                                               now)]
            /\ grants' = grants
       ELSE /\ limiter' = granted(limiter, c, now)
            /\ grants' = Append(grants, Grant(c, now))
    /\ UNCHANGED <<storeVars, scanVars, fetched,
                   reportVars, cacheVars, scraperVars, gridVars, workerVars>>

\* asyncio.sleep(wait_time) is over: not before wait_time has passed
Wake(c) ==
    /\ limiter.pc[c] = "sleep"
    /\ now >= limiter.wake[c]
    /\ limiter' = granted(limiter, c, now)
    /\ grants' = Append(grants, Grant(c, now))
    /\ UNCHANGED <<storeVars, scanVars, fetched,
                   reportVars, cacheVars, scraperVars, gridVars, workerVars>>

\* the outbound call the permit was asked for is over
Finish(c) ==
    /\ limiter.pc[c] = "calling"
    /\ limiter' = [limiter EXCEPT !.pc[c] = "idle"]
    /\ UNCHANGED <<storeVars, scanVars, fetched,
                   grants, reportVars, cacheVars, scraperVars, gridVars,
                   workerVars>>

NextLimiter ==
    \/ NewRateLimiter(2)
    \/ \E c \in Callers : Acquire(c)
    \/ \E c \in Callers : EnterSemaphore(c)
    \/ \E c \in Callers : EnterLock(c)
    \/ \E c \in Callers : Wake(c)
    \/ \E c \in Callers : Finish(c)
    \/ Tick

SpecLimiter == Init /\ [][NextLimiter]_vars

----------------------------------------------------------------------------
(* TileGrid *)

MaxTiles == 5         \* no tile is subdivided into a grid larger than this

SearchConfig(min_lat, max_lat, min_lng, max_lng, side) ==
    [min_lat |-> min_lat, max_lat |-> max_lat, min_lng |-> min_lng,
     max_lng |-> max_lng, tile_size |-> side]

\* the 1 x 1 degree box, a box no multiple of a tile wide, a box lower than
\* a tile
GridConfigs ==
    {SearchConfig(0, 160, 0, 160, 80), SearchConfig(0, 160, 40, 140, 160),
     SearchConfig(20, 60, 0, 160, 80)}

\* the overlap ratio in percent: 0, 0.1, 0.25 and 0.5
Overlaps == {0, 10, 25, 50}

\* models.Tile; searched and business_count take their defaults
GridTile(id, min_lat, max_lat, min_lng, max_lng) ==
    [id |-> id, min_lat |-> min_lat, max_lat |-> max_lat,
     min_lng |-> min_lng, max_lng |-> max_lng,
     searched |-> FALSE, business_count |-> 0]

Min(a, b) == IF a < b THEN a ELSE b

\* a plausible slip: the overlap is added to the step instead of taken off
step_size_widened(side, overlap) == (side * (100 + overlap)) \div 100

\* step_size = self.tile_size * (1 - overlap)
step_size(side, overlap) == (side * (100 - overlap)) \div 100

\* a plausible slip: the last tile of a row is not clipped to the box
next_edge_unclipped(at, side, max) == at + side

\* next_lat = min(lat + self.tile_size, config.max_lat), and likewise next_lng
next_edge(at, side, max) == Min(at + side, max)

\* the inner while loop: the tiles of the row [lat, next_lat] from lng on,
\* appended to acc
RECURSIVE grid_row(_, _, _, _, _, _, _)
grid_row(config, side, step, lat, next_lat, lng, acc) ==
    IF ~(lng < config.max_lng) THEN acc
    ELSE LET next_lng == next_edge(lng, side, config.max_lng)
             tile == GridTile("tile_" \o ToString(Len(acc)), lat, next_lat,
                              lng, next_lng)
             lng2 == Min(lng + step, config.max_lng)
         IN  IF lng2 >= config.max_lng
             THEN Append(acc, tile)
             ELSE grid_row(config, side, step, lat, next_lat, lng2,
                           Append(acc, tile))

\* the outer while loop: the rows from lat on
RECURSIVE grid_rows(_, _, _, _, _)
grid_rows(config, side, step, lat, acc) ==
    IF ~(lat < config.max_lat) THEN acc
    ELSE LET next_lat == next_edge(lat, side, config.max_lat)
             row  == grid_row(config, side, step, lat, next_lat,
                              config.min_lng, acc)
             lat2 == Min(lat + step, config.max_lat)
         IN  IF lat2 >= config.max_lat
             THEN row
             ELSE grid_rows(config, side, step, lat2, row)

\* the tile list create_grid builds
create_grid(side, config, overlap) ==
    grid_rows(config, side, step_size(side, overlap), config.min_lat, <<>>)

\* self._tile_map[tile.id] = tile for every tile of the list
Register(map, list) ==
    [id \in DOMAIN map \cup {list[i].id : i \in DOMAIN list} |->
        IF \E i \in DOMAIN list : list[i].id = id
        THEN list[CHOOSE i \in DOMAIN list : list[i].id = id]
        ELSE map[id]]

\* what a create_grid call was given and how many tiles it made
GridCall(config, side, overlap, n) ==
    [config |-> config, size |-> side, overlap |-> overlap, count |-> n]

NoGridCall == [count |-> -1]

\* create_grid(config, overlap)
CreateGrid(config, overlap) ==
    LET list == create_grid(tile_size, config, overlap) IN
    /\ tiles' = list
    /\ _tile_map' = Register(_tile_map, list)
    /\ gridLog' = [op |-> "create_grid",
                   grid |-> GridCall(config, tile_size, overlap, Len(list)),
                   prev |-> IF gridLog.op = "create_grid" THEN gridLog.grid
                            ELSE NoGridCall]
    /\ UNCHANGED <<reportVars, limiterVars, storeVars, scanVars, fetched,
                   tile_size, cacheVars, scraperVars, workerVars>>

\* get_tile(tile_id)
get_tile(map, tile_id) ==
    IF tile_id \in DOMAIN map THEN Hit(map[tile_id]) ELSE Miss

\* tile.searched = True; tile.business_count = business_count
searched_tile(tile, business_count) ==
    [tile EXCEPT !.searched = TRUE, !.business_count = business_count]

\* mark_tile_searched(tile_id, business_count): the tile object is the one
\* the list holds under that id
mark_tile_searched(list, map, tile_id, business_count) ==
    IF tile_id \notin DOMAIN map THEN [tiles |-> list, tile_map |-> map]
    ELSE [tiles |-> [i \in DOMAIN list |->
                        IF list[i].id = tile_id
                        THEN searched_tile(list[i], business_count)
                        ELSE list[i]],
          tile_map |-> [map EXCEPT ![tile_id] =
                            searched_tile(@, business_count)]]

BusinessCounts == {2}

MarkTileSearched(tile_id, business_count) ==
    LET r == mark_tile_searched(tiles, _tile_map, tile_id, business_count) IN
    /\ tiles' = r.tiles
    /\ _tile_map' = r.tile_map
    /\ gridLog' = [op |-> "mark_tile_searched", tile_id |-> tile_id,
                   before |-> tiles]
    /\ UNCHANGED <<reportVars, limiterVars, storeVars, scanVars, fetched,
                   tile_size, cacheVars, scraperVars, workerVars>>

\* the midpoint (min + max) / 2
mid(min, max) == (min + max) \div 2

\* a plausible slip: the northern children get the southern half
new_tiles_south_first(tile) ==
    LET mid_lat == mid(tile.min_lat, tile.max_lat)
        mid_lng == mid(tile.min_lng, tile.max_lng)
    IN  <<GridTile(tile.id \o "_nw", tile.min_lat, mid_lat,
                   tile.min_lng, mid_lng),
          GridTile(tile.id \o "_ne", tile.min_lat, mid_lat,
                   mid_lng, tile.max_lng),
          GridTile(tile.id \o "_sw", mid_lat, tile.max_lat,
                   tile.min_lng, mid_lng),
          GridTile(tile.id \o "_se", mid_lat, tile.max_lat,
                   mid_lng, tile.max_lng)>>

\* the four children subdivide_tile builds
new_tiles(tile) ==
    LET mid_lat == mid(tile.min_lat, tile.max_lat)
        mid_lng == mid(tile.min_lng, tile.max_lng)
    IN  <<GridTile(tile.id \o "_nw", mid_lat, tile.max_lat,
                   tile.min_lng, mid_lng),
          GridTile(tile.id \o "_ne", mid_lat, tile.max_lat,
                   mid_lng, tile.max_lng),
          GridTile(tile.id \o "_sw", tile.min_lat, mid_lat,
                   tile.min_lng, mid_lng),
          GridTile(tile.id \o "_se", tile.min_lat, mid_lat,
                   mid_lng, tile.max_lng)>>

\* self.tiles.index(tile): the first element equal to tile
index(list, tile) == CHOOSE i \in DOMAIN list :
    /\ list[i] = tile
    /\ \A j \in 1 .. i - 1 : list[j] # tile

\* the replacement of the old tile: (tiles, _tile_map)
subdivide_tile(list, map, tile) ==
    LET children == new_tiles(tile)
        idx == index(list, tile)
    IN  [tiles |-> SubSeq(list, 1, idx - 1) \o children
                       \o SubSeq(list, idx + 1, Len(list)),
         tile_map |-> Register(Restrict(map, DOMAIN map \ {tile.id}), children),
         new_tiles |-> children]

\* subdivide_tile(tile) for a tile of the list whose midpoint is a whole
\* number of units
SubdivideTile(i) ==
    /\ i \in DOMAIN tiles
    /\ Len(tiles) + 3 <= MaxTiles
    /\ (tiles[i].min_lat + tiles[i].max_lat) % 2 = 0
    /\ (tiles[i].min_lng + tiles[i].max_lng) % 2 = 0
    /\ LET r == subdivide_tile(tiles, _tile_map, tiles[i]) IN
        /\ tiles' = r.tiles
        /\ _tile_map' = r.tile_map
        /\ gridLog' = [op |-> "subdivide_tile", tile |-> tiles[i], idx |-> i,
                       before |-> tiles, map_before |-> _tile_map,
                       returned |-> r.new_tiles]
    /\ UNCHANGED <<reportVars, limiterVars, storeVars, scanVars, fetched,
                   tile_size, cacheVars, scraperVars, workerVars>>

total_tiles(list) == Len(list)

searched_tiles(list) == Cardinality({i \in DOMAIN list : list[i].searched})

\* progress, as the fraction num / den (0.0 for the empty grid)
progress(list) ==
    IF list = <<>> THEN [num |-> 0, den |-> 1]
    ELSE [num |-> searched_tiles(list), den |-> total_tiles(list)]

\* every create_grid the bounding boxes and overlaps allow
NextCreateGrid ==
    \E config \in GridConfigs, overlap \in Overlaps :
        CreateGrid(config, overlap)

SpecCreateGrid == Init /\ [][NextCreateGrid]_vars

\* the boxes of the grids that are marked and subdivided: one tile, or two
SmallConfigs ==
    {SearchConfig(0, 80, 0, 80, 80), SearchConfig(0, 160, 0, 80, 80)}

NextGrid ==
    \/ \E config \in SmallConfigs : CreateGrid(config, 0)
    \/ \E tile_id \in {tiles[i].id : i \in DOMAIN tiles} \cup {"tile_9"},
          business_count \in BusinessCounts :
          MarkTileSearched(tile_id, business_count)
    \/ \E i \in 1 .. MaxTiles : SubdivideTile(i)

SpecGrid == Init /\ [][NextGrid]_vars

----------------------------------------------------------------------------
(* BusinessStore: add, save and the next run's store *)

\* the businesses the runs find: p1, under the name of one run and under
\* the name of the next
Businesses ==
    {[place_id |-> "p1", name |-> "v1"], [place_id |-> "p1", name |-> "v2"]}

\* add(business) on store st: (the store, what add returns)
add(st, business) ==
    IF business.place_id \in st._place_ids
    THEN [store |-> st, ret |-> FALSE]
    ELSE [store |-> [st EXCEPT
                        !._place_ids = @ \cup {business.place_id},
                        !.businesses = Append(@, business)],
          ret |-> TRUE]

Add(business) ==
    LET r == add(business_store, business) IN
    /\ business_store' = r.store
    /\ lastAdd' = [place_id |-> business.place_id, ret |-> r.ret,
                   before |-> business_store.businesses]
    /\ UNCHANGED <<outdir, scanVars, fetched, reportVars, limiterVars,
                   cacheVars, scraperVars, gridVars, workerVars>>

\* the files save() writes for one suffix: the JSON list always, the CSV and
\* the Excel sheet when there is a business
saved_files(dir, suffix, records) ==
    LET name == "businesses_" \o suffix
        rich == IF records = <<>> THEN {} ELSE {name \o ".csv", name \o ".xlsx"}
        written == {name \o ".json"} \cup rich
    IN  [f \in DOMAIN dir \cup written |->
            IF f \in written THEN records ELSE dir[f]]

\* save(): the files of the timestamp, then the files of "latest"
Save ==
    /\ outdir' = saved_files(saved_files(outdir, ToString(now),
                                         business_store.businesses),
                             "latest", business_store.businesses)
    /\ UNCHANGED <<business_store, lastAdd, scanVars, fetched, reportVars,
                   limiterVars, cacheVars, scraperVars, gridVars,
                   workerVars>>

\* the next run makes its BusinessStore over the same output directory
NewBusinessStore ==
    /\ business_store' = BusinessStore(outdir)
    /\ lastAdd' = NoOp
    /\ UNCHANGED <<outdir, scanVars, fetched, reportVars, limiterVars,
                   cacheVars, scraperVars, gridVars, workerVars>>

NextStore ==
    \/ \E business \in Businesses : Add(business)
    \/ Save
    \/ NewBusinessStore
    \/ Tick

SpecStore == Init /\ [][NextStore]_vars

----------------------------------------------------------------------------
(* create_grid in floating point *)

\* The scan of create_grid adds floats. A float keeps a fixed number of
\* significant bits, so a sum is rounded to the nearest number that has no
\* more of them. The model keeps mantissa_bits where a double keeps 53, and
\* counts in units of the smallest step the inputs use: what happens here to
\* a step of 2 at latitude 40 happens to a double with a step of 1e-15
\* degrees at latitude 40.0.
mantissa_bits == 3

RECURSIVE ulp(_, _)
\* the gap between neighbouring floats at the magnitude of x, where below
\* `top` the gap is `gap`
ulp(x, top) == IF x < top THEN 1 ELSE 2 * ulp(x \div 2, top)

\* x rounded to the nearest float, ties to the even mantissa
fl(x) ==
    LET gap == ulp(x, 2 ^ mantissa_bits)
        down == (x \div gap) * gap
        rest == x - down
    IN  IF 2 * rest < gap THEN down
        ELSE IF 2 * rest > gap THEN down + gap
        ELSE IF (down \div gap) % 2 = 0 THEN down ELSE down + gap

\* the bounding boxes of the scans, near the origin and away from it
ScanConfigs ==
    {SearchConfig(0, 6, 0, 4, 2), SearchConfig(40, 48, 0, 4, 2),
     SearchConfig(0, 4, 40, 48, 2)}

\* create_grid(config, overlap) on TileGrid(side) up to the first test of
\* the outer loop
ScanStart(config, side, overlap) ==
    /\ scan.pc \in {"idle", "done"}
    /\ scan' = [pc |-> "row", config |-> config, side |-> side,
                step_size |-> fl(step_size(side, overlap)),
                lat |-> config.min_lat, lng |-> config.min_lng]
    /\ UNCHANGED <<storeVars, fetched, reportVars, limiterVars, cacheVars,
                   scraperVars, gridVars, workerVars>>

\* the test of the outer loop and the head of its body
ScanRow ==
    /\ scan.pc = "row"
    /\ scan' = IF scan.lat < scan.config.max_lat
               THEN [scan EXCEPT !.pc = "col", !.lng = scan.config.min_lng]
               ELSE [scan EXCEPT !.pc = "done"]
    /\ UNCHANGED <<storeVars, fetched, reportVars, limiterVars, cacheVars,
                   scraperVars, gridVars, workerVars>>

\* one turn of the inner loop: the tile, then lng = min(lng + step_size,
\* max_lng) and the two tests that follow
ScanCol ==
    /\ scan.pc = "col"
    /\ IF scan.lng < scan.config.max_lng
       THEN LET lng == Min(fl(scan.lng + scan.step_size),
                           scan.config.max_lng)
            IN  scan' = [scan EXCEPT
                            !.lng = lng,
                            !.pc = IF lng >= scan.config.max_lng
                                   THEN "next_row" ELSE "col"]
       ELSE scan' = [scan EXCEPT !.pc = "next_row"]
    /\ UNCHANGED <<storeVars, fetched, reportVars, limiterVars, cacheVars,
                   scraperVars, gridVars, workerVars>>

\* the end of the outer loop's body: lat = min(lat + step_size, max_lat) and
\* the test that follows
ScanNextRow ==
    /\ scan.pc = "next_row"
    /\ LET lat == Min(fl(scan.lat + scan.step_size), scan.config.max_lat)
       IN  scan' = [scan EXCEPT
                       !.lat = lat,
                       !.pc = IF lat >= scan.config.max_lat
                              THEN "done" ELSE "row"]
    /\ UNCHANGED <<storeVars, fetched, reportVars, limiterVars, cacheVars,
                   scraperVars, gridVars, workerVars>>

NextScan ==
    \/ \E config \in ScanConfigs, side \in {2, 4}, overlap \in {0, 50} :
          ScanStart(config, side, overlap)
    \/ ScanRow
    \/ ScanCol
    \/ ScanNextRow

SpecScan == Init /\ [][NextScan]_vars

----------------------------------------------------------------------------
(* run_scraper and scrape_worker (web_server.py) *)

MaxTarget == 3        \* the largest target_count a job is created with

max_expansion_multiplier == 6    \* 3.0, in halves
expansion_increment == 1         \* 0.5, in halves
max_expansions == 4

\* the bounding boxes of the runs: two overlapping tiles at 25% overlap,
\* five, as many as the empty-tile threshold, a box with min_lat = max_lat
\* and a box with min_lat > max_lat
RunConfigs == {SearchConfig(0, 100, 0, 60, 80),
               SearchConfig(0, 300, 0, 60, 80),
               SearchConfig(0, 0, 0, 60, 80),
               SearchConfig(100, 0, 0, 60, 80)}

\* (max_lat - min_lat) * (max_lng - min_lng)
area_degrees(config) ==
    (config.max_lat - config.min_lat) * (config.max_lng - config.min_lng)

\* what the pages of one search_tile call of the run may gather: nothing, or
\* places the overlapping tiles and the query variations share
GatheredLists ==
    {<<>>, <<Place("p3", 1), Place("p1", max_radius_km)>>} \cup ResultLists

\* what the pages of a call gather with the credential of the run: the API
\* answers a request without a key with REQUEST_DENIED and no results
gathered_with(credential) ==
    IF credential = None THEN {<<>>} ELSE GatheredLists

\* search_queries: the query, and in smart mode its variations
search_queries(query, smart_mode) ==
    IF smart_mode THEN <<query, query \o " business">> ELSE <<query>>

\* max(5, len(tiles) // 10)
max_empty_tiles(list) ==
    IF Len(list) \div 10 > 5 THEN Len(list) \div 10 ELSE 5

\* ScrapingJob as create_job makes it and run_scraper starts it
ScrapingJob(query, target_count, tiles_total) ==
    [query |-> query, status |-> "running", target_count |-> target_count,
     current_count |-> 0, tiles_total |-> tiles_total, tiles_completed |-> 0,
     businesses |-> <<>>]

\* handle_start_scrape and run_scraper up to the first statement of
\* scrape_worker's loop: the job, a new TileGrid with its grid at 25%
\* overlap, a new GoogleMapsScraper; wk.places, wk.seen0, wk.passes and
\* wk.calls are history: the places the last search_tile call gathered, the
\* identity set when the pass began, the passes begun, and the (tile, query)
\* pairs search_tile was called with in this pass; credential is what
\* os.getenv('GOOGLE_MAPS_API_KEY') gives the run; wk.count0 and wk.yields
\* are history too: current_count when the tile's turn began, and for each
\* tile of this pass whose turn ended the number of businesses it added;
\* wk.config is the box of the run and wk.stopped_at where the worker was
\* when stop_job set the flag
RunScraper(config, query, target_count, smart_mode, credential) ==
    LET list == create_grid(config.tile_size, config, 25) IN
    /\ job = NoJob
    /\ area_degrees(config) >= 0
    /\ tiles' = list
    /\ _tile_map' = Register(<<>>, list)
    /\ gridLog' = [op |-> "create_grid",
                   grid |-> GridCall(config, config.tile_size, 25,
                                     Len(list)),
                   prev |-> NoGridCall]
    /\ job' = ScrapingJob(query, target_count, Len(list))
    /\ seen_place_ids' = {}
    /\ wk' = [pc |-> "pass", smart_mode |-> smart_mode,
              queries_to_try |-> search_queries(query, smart_mode),
              api_radius_multiplier |-> 2, expansion_count |-> 0,
              empty_tile_count |-> 0, i |-> 0, q |-> 0,
              tile_found_businesses |-> FALSE, api_key |-> credential,
              places |-> <<>>, seen0 |-> {}, passes |-> 0, calls |-> <<>>,
              count0 |-> 0, yields |-> <<>>, config |-> config,
              stopped_at |-> None]
    /\ usage' = APIUsageStats
    /\ _place_cache' = {}
    /\ returned' = <<>>
    /\ tile_size' = config.tile_size
    /\ UNCHANGED <<reportVars, limiterVars, storeVars, scanVars, fetched,
                   _stop_flags, cacheVars, call, reqLog, cacheLog, lastReq,
                   radii>>

\* run_scraper on a box of negative area: job.status = 'running', then
\* math.sqrt raises ValueError outside every try and the thread ends
RunScraperRaises(config, query, target_count) ==
    /\ job = NoJob
    /\ area_degrees(config) < 0
    /\ job' = ScrapingJob(query, target_count, 0)
    /\ wk' = [pc |-> "crashed", config |-> config]
    /\ UNCHANGED <<reportVars, limiterVars, storeVars, scanVars, fetched,
                   seen_place_ids, _stop_flags, gridVars, cacheVars,
                   scraperVars>>

\* job_manager.stop_job(job_id)
StopJob ==
    /\ job # NoJob
    /\ ~_stop_flags
    /\ _stop_flags' = TRUE
    /\ job' = [job EXCEPT !.status = "paused"]
    /\ wk' = IF wk.pc = "crashed" THEN wk
             ELSE [wk EXCEPT !.stopped_at = wk.pc]
    /\ UNCHANGED <<reportVars, limiterVars, storeVars, scanVars, fetched,
                   seen_place_ids, gridVars, cacheVars, scraperVars>>

\* a plausible slip: the tiles keep their counts
reset_for_rescan_keeping_count(list, seen) ==
    [tiles |-> [i \in DOMAIN list |-> [list[i] EXCEPT !.searched = FALSE]],
     seen |-> seen]

\* a plausible slip: the rescan starts from a clean slate
reset_for_rescan_forgetting(list, seen) ==
    [tiles |-> [i \in DOMAIN list |->
                   [list[i] EXCEPT !.searched = FALSE, !.business_count = 0]],
     seen |-> {}]

\* the reset at the head of an expansion pass: every tile unsearched again,
\* the identity set untouched
reset_for_rescan(list, seen) ==
    [tiles |-> [i \in DOMAIN list |->
                   [list[i] EXCEPT !.searched = FALSE, !.business_count = 0]],
     seen |-> seen]

\* the head of the while loop: the test, and from the second pass on the
\* reset of the tiles, of empty_tile_count and of tiles_completed
PassBegin ==
    /\ wk.pc = "pass"
    /\ IF wk.expansion_count > max_expansions
       THEN /\ wk' = [wk EXCEPT !.pc = "done"]
            /\ job' = [job EXCEPT !.status = "completed"]
            /\ UNCHANGED <<tiles, _tile_map, seen_place_ids>>
       ELSE IF wk.expansion_count > 0
       THEN LET r == reset_for_rescan(tiles, seen_place_ids) IN
            /\ tiles' = r.tiles
            /\ _tile_map' = Register(_tile_map, r.tiles)
            /\ seen_place_ids' = r.seen
            /\ wk' = [wk EXCEPT !.pc = "tile", !.i = 1,
                                !.empty_tile_count = 0,
                                !.seen0 = seen_place_ids,
                                !.passes = @ + 1, !.calls = <<>>,
                                !.yields = <<>>]
            /\ job' = [job EXCEPT !.tiles_completed = 0]
       ELSE /\ wk' = [wk EXCEPT !.pc = "tile", !.i = 1,
                                !.passes = @ + 1, !.calls = <<>>,
                                !.yields = <<>>]
            /\ UNCHANGED <<tiles, _tile_map, seen_place_ids, job>>
    /\ gridLog' = [op |-> "pass", before |-> tiles]
    /\ UNCHANGED <<reportVars, limiterVars, storeVars, scanVars, fetched,
                   tile_size, _stop_flags, cacheVars, scraperVars>>

\* a plausible slip: the worker does not look at the flag
should_stop_never(flag) == FALSE

\* job_manager.should_stop(job_id)
should_stop(flag) == flag

\* the head of the for loop over the tiles: the stop flag, the target
TileBegin ==
    /\ wk.pc = "tile"
    /\ IF wk.i > Len(tiles)
       THEN /\ wk' = [wk EXCEPT !.pc = "after_pass"]
            /\ job' = job
       ELSE IF should_stop(_stop_flags)
       THEN /\ wk' = [wk EXCEPT !.pc = "done"]
            /\ job' = [job EXCEPT !.status = "paused"]
       ELSE IF job.current_count >= job.target_count
       THEN /\ wk' = [wk EXCEPT !.pc = "after_pass"]
            /\ job' = job
       ELSE /\ wk' = [wk EXCEPT !.pc = "query", !.q = 1,
                                !.tile_found_businesses = FALSE,
                                !.count0 = job.current_count]
            /\ job' = job
    /\ UNCHANGED <<reportVars, limiterVars, storeVars, scanVars, fetched,
                   seen_place_ids, _stop_flags, gridVars, cacheVars,
                   scraperVars>>

\* a plausible slip: the target is tested between calls only
target_reached_never(j) == FALSE

\* the test at the head of the loop over the businesses of one call
target_reached(j) == j.current_count >= j.target_count

\* the loop over the businesses a search_tile call returned: (job,
\* seen_place_ids)
RECURSIVE merge(_, _, _)
merge(businesses, j, seen) ==
    IF businesses = <<>> THEN [job |-> j, seen |-> seen]
    ELSE IF target_reached(j)
    THEN [job |-> j, seen |-> seen]
    ELSE IF Head(businesses) \in seen
    THEN merge(Tail(businesses), j, seen)
    ELSE merge(Tail(businesses),
               [j EXCEPT !.businesses = Append(@, Head(businesses)),
                         !.current_count = @ + 1],
               seen \cup {Head(businesses)})

\* one turn of the loop over queries_to_try: a search_tile call, taken
\* whole, whose pages gathered `places`, and the loop over what it returned
QueryStep(places) ==
    /\ wk.pc = "query"
    /\ wk.q <= Len(wk.queries_to_try)
    /\ places \in gathered_with(wk.api_key)
    /\ LET r == process_places(places, AllSupplied, _place_cache, <<>>)
           m == merge(r.businesses, job, seen_place_ids)
       IN  /\ _place_cache' = r.place_cache
           /\ returned' = returned \o r.businesses
           /\ job' = m.job
           /\ seen_place_ids' = m.seen
           /\ wk' = [wk EXCEPT !.q = @ + 1,
                               !.tile_found_businesses =
                                   @ \/ r.businesses # <<>>,
                               !.places = places,
                               !.calls = Append(@, <<wk.i, wk.q>>)]
    /\ UNCHANGED <<reportVars, limiterVars, storeVars, scanVars, fetched,
                   _stop_flags, gridVars, cacheVars, usage, call, reqLog,
                   cacheLog, lastReq, radii>>

\* a plausible slip: a tile that found businesses leaves the count alone
empty_tiles_after_kept(found, n) == IF found THEN n ELSE n + 1

\* empty_tile_count after a tile's turn
empty_tiles_after(found, n) == IF found THEN 0 ELSE n + 1

\* the rest of the tile's turn: the empty-tile count and its break, else
\* mark_tile_searched and tiles_completed
TileEnd ==
    /\ wk.pc = "query"
    /\ wk.q > Len(wk.queries_to_try)
    /\ LET empty == empty_tiles_after(wk.tile_found_businesses,
                                      wk.empty_tile_count)
           added == Append(wk.yields, job.current_count - wk.count0)
           r == mark_tile_searched(tiles, _tile_map, tiles[wk.i].id,
                                   job.current_count)
       IN  IF ~wk.tile_found_businesses /\ empty >= max_empty_tiles(tiles)
           THEN /\ wk' = [wk EXCEPT !.pc = "after_pass",
                                    !.empty_tile_count = empty,
                                    !.yields = added]
                /\ UNCHANGED <<tiles, _tile_map, job>>
           ELSE /\ wk' = [wk EXCEPT !.pc = "tile", !.i = @ + 1,
                                    !.empty_tile_count = empty,
                                    !.yields = added]
                /\ tiles' = r.tiles
                /\ _tile_map' = r.tile_map
                /\ job' = [job EXCEPT !.tiles_completed = @ + 1]
    /\ gridLog' = [op |-> "mark_tile_searched", tile_id |-> tiles[wk.i].id,
                   before |-> tiles]
    /\ UNCHANGED <<reportVars, limiterVars, storeVars, scanVars, fetched,
                   tile_size, seen_place_ids, _stop_flags, cacheVars,
                   scraperVars>>

\* a plausible slip: only the counter is tested, and one pass late
expansion_exhausted_late(w) == w.expansion_count > max_expansions

\* api_radius_multiplier >= max_expansion_multiplier or expansion_count >=
\* max_expansions
expansion_exhausted(w) ==
    \/ w.api_radius_multiplier >= max_expansion_multiplier
    \/ w.expansion_count >= max_expansions

\* a plausible slip: the next pass starts as this one did
expand_in_place(w) == [w EXCEPT !.pc = "pass"]

\* api_radius_multiplier += expansion_increment; expansion_count += 1
expand(w) ==
    [w EXCEPT !.pc = "pass",
              !.api_radius_multiplier = @ + expansion_increment,
              !.expansion_count = @ + 1]

\* after the for loop: the target, the largest multiplier, the next pass
AfterPass ==
    /\ wk.pc = "after_pass"
    /\ IF \/ job.current_count >= job.target_count
          \/ expansion_exhausted(wk)
       THEN /\ wk' = [wk EXCEPT !.pc = "done"]
            /\ job' = [job EXCEPT !.status = "completed"]
       ELSE /\ wk' = expand(wk)
            /\ job' = job
    /\ UNCHANGED <<reportVars, limiterVars, storeVars, scanVars, fetched,
                   seen_place_ids, _stop_flags, gridVars, cacheVars,
                   scraperVars>>

NextWorker ==
    \/ \E config \in RunConfigs, query \in Queries,
          target_count \in 0 .. MaxTarget, smart_mode \in BOOLEAN,
          credential \in {api_key, None} :
             RunScraper(config, query, target_count, smart_mode, credential)
    \/ \E config \in RunConfigs, query \in Queries,
          target_count \in 0 .. MaxTarget :
             RunScraperRaises(config, query, target_count)
    \/ StopJob
    \/ PassBegin
    \/ TileBegin
    \/ \E places \in GatheredLists : QueryStep(places)
    \/ TileEnd
    \/ AfterPass

SpecWorker == Init /\ [][NextWorker]_vars

\* scrape_worker runs in a thread of its own and each of its statements
\* returns: search_tile asks for at most max_pages pages, each with a timeout
WorkerStep ==
    \/ PassBegin
    \/ TileBegin
    \/ \E places \in GatheredLists : QueryStep(places)
    \/ TileEnd
    \/ AfterPass

SpecWorkerLive == SpecWorker /\ WF_vars(WorkerStep)

----------------------------------------------------------------------------
(* Properties of the cache *)

Fresh(op) == op.prior # NoPrior /\ op.at - op.prior.at <= ttl_seconds

\* C1: a get returns the response most recently put under the same url and
\* the same non-credential params while that entry is within its TTL and no
\* clear came in between; with nothing put under that url and those params a
\* get misses, whatever was put under other urls or other params
C1_GetReturnsLatestPut ==
    lastOp.op = "get" =>
        /\ Fresh(lastOp) => lastOp.ret = Hit(lastOp.prior.response)
        /\ lastOp.prior = NoPrior => lastOp.ret = Miss

\* a get hits while entries with other responses sit under other requests
C1_Witness ==
    /\ lastOp.op = "get"
    /\ lastOp.ret.hit
    /\ \E id \in DOMAIN stored :
          /\ id # NonCredential(lastOp.url, lastOp.params)
          /\ stored[id].at >= lastOp.prior.at
          /\ stored[id].response # lastOp.ret.response

\* C2: the credential plays no part in the key: a get under another
\* credential than the put's returns the put's response, and a put that
\* differs from the previous put of that request only in the credential
\* reuses its entry (size unchanged), a put of a new request adding one
C2_KeyIgnoresCredential ==
    /\ (lastOp.op = "get" /\ Fresh(lastOp)
           /\ lastOp.prior.params.key # lastOp.params.key)
          => lastOp.ret = Hit(lastOp.prior.response)
    /\ (lastOp.op = "put" /\ lastOp.prior # NoPrior
           /\ lastOp.prior.params.key # lastOp.params.key)
          => lastOp.sizeAfter = lastOp.sizeBefore
    /\ (lastOp.op = "put" /\ lastOp.prior = NoPrior)
          => lastOp.sizeAfter = lastOp.sizeBefore + 1

\* put under KEY_A, get under KEY_B (or the reverse) hits
C2_Witness ==
    /\ lastOp.op = "get"
    /\ Fresh(lastOp)
    /\ lastOp.prior.params.key # lastOp.params.key
    /\ lastOp.ret.hit

\* C3: a get returns the stored entry while its age is at most ttl_seconds;
\* past that the get misses and removes the file, so size drops by one
C3_TtlExpiry ==
    (lastOp.op = "get" /\ lastOp.prior # NoPrior) =>
        IF lastOp.at - lastOp.prior.at <= ttl_seconds
        THEN /\ lastOp.ret = Hit(lastOp.prior.response)
             /\ lastOp.sizeAfter = lastOp.sizeBefore
        ELSE /\ lastOp.ret = Miss
             /\ lastOp.sizeAfter = lastOp.sizeBefore - 1
             /\ Prior(stored, lastOp.url, lastOp.params) = NoPrior

\* a get finds an entry older than the TTL
C3_Witness ==
    /\ lastOp.op = "get"
    /\ lastOp.prior # NoPrior
    /\ lastOp.at - lastOp.prior.at > ttl_seconds
    /\ lastOp.ret = Miss
    /\ lastOp.sizeAfter = lastOp.sizeBefore - 1

\* C4: no get and no put raises to its caller; a get that meets an I/O
\* error, a corrupt file or a file of another shape returns a miss
C4_CacheNeverRaises ==
    /\ lastOp.op \in {"get", "put"} => lastOp.raised = None
    /\ (lastOp.op = "get" /\ lastOp.fault # None) => lastOp.ret = Miss

\* C5: a put that fails after the file was opened leaves the previous,
\* still fresh entry of its key retrievable, or the new one in place
C5_WholeFileReplace ==
    (lastOp.op = "put" /\ lastOp.written \in 0 .. 1 /\ Fresh(lastOp)) =>
        get(files, lastOp.at, lastOp.url, lastOp.params, None).ret
            \in {Hit(lastOp.prior.response), Hit(lastOp.response)}

\* C6: clear raises nothing and removes every file but those whose removal
\* failed; when no removal fails the size is 0 and every get misses
C6_ClearRemovesAll ==
    lastOp.op = "clear" =>
        /\ lastOp.raised = None
        /\ DOMAIN files = lastOp.failing
        /\ lastOp.failing = {} =>
              /\ size(files) = 0
              /\ \A r \in FaultRequests :
                    get(files, now, r[1], r[2], None).ret = Miss

\* clear fails on one of two files and still removes the other
C6_Witness ==
    /\ lastOp.op = "clear"
    /\ lastOp.failing # {}
    /\ lastOp.sizeBefore = 2
    /\ lastOp.sizeAfter = 1

\* the logical requests a get would be answered for right now
Retrievable ==
    {NonCredential(r[1], r[2]) :
        r \in {q \in CacheRequests :
                  get(files, now, q[1], q[2], None).ret.hit}}

PutChangesSize ==
    lastOp.op = "put" =>
        lastOp.sizeAfter =
            lastOp.sizeBefore + (IF lastOp.prior = NoPrior THEN 1 ELSE 0)

\* C7 as claimed: size is 0 for the empty cache, a put under a new key adds
\* one, a put under an existing key adds nothing, and size is the number of
\* entries a get could return
C7_SizeCountsRetrievable ==
    /\ (DOMAIN stored = {} => size(files) = 0)
    /\ PutChangesSize
    /\ size(files) = Cardinality(Retrievable)

\* C7 amended: size is the number of entry files: one per logical request
\* put and not yet removed by a clear or by the get that found it expired,
\* so an expired entry nobody has read yet is still counted
C7_SizeCountsFiles ==
    /\ (DOMAIN stored = {} => size(files) = 0)
    /\ PutChangesSize
    /\ size(files) = Cardinality(DOMAIN stored)
    /\ Cardinality(Retrievable) <= size(files)

\* an expired entry is on disk, counted by size, and no get would return it
C7_Witness ==
    /\ size(files) = 1
    /\ Retrievable = {}
    /\ \E id \in DOMAIN stored : now - stored[id].at > ttl_seconds

----------------------------------------------------------------------------
(* Properties of search_tile and get_business_details *)

UsageFields == {"text_search_calls", "text_search_cache_hits",
                "place_details_calls", "place_details_cache_hits"}

\* the counter a resolved request is booked on
CounterOf(req) ==
    req.category \o (IF req.source = "cache" THEN "_cache_hits" ELSE "_calls")

\* C8: a request that search_tile or get_business_details resolved changed
\* exactly one counter, that of its category, by +1: the cache-hit counter
\* and no network call on a hit, the real-call counter and one network call
\* on a miss; and no step of the program decrements a counter
C8_OneCounterPerRequest ==
    /\ [](lastReq # NoOp /\ ~lastReq.raised =>
            /\ \A f \in UsageFields :
                  usage[f] - lastReq.usageBefore[f]
                      = IF f = CounterOf(lastReq) THEN 1 ELSE 0
            /\ lastReq.netCalls = IF lastReq.source = "cache" THEN 0 ELSE 1)
    /\ [][\A f \in UsageFields : usage'[f] >= usage[f]]_vars

\* a first page was answered by the cache after an earlier call paid for it
C8_Witness ==
    /\ lastReq # NoOp
    /\ lastReq.category = "text_search"
    /\ lastReq.source = "cache"
    /\ usage.text_search_cache_hits = 1
    /\ usage.text_search_calls >= 1

\* C9: search_tile hands the cache only first-page requests, writes only OK
\* answers to first-page requests it had to fetch, and never serves a
\* page-token request from the cache; so every text-search entry on disk is
\* an OK answer to a request without pagetoken
C9_CacheOnlyFirstPageOK ==
    /\ \A i \in 1 .. Len(cacheLog) :
          /\ "pagetoken" \notin DOMAIN cacheLog[i].params
          /\ cacheLog[i].op = "put" => cacheLog[i].status = "OK"
    /\ (\E i \in 1 .. Len(cacheLog) : cacheLog[i].op = "put") =>
          /\ reqLog[1].source = "network"
          /\ reqLog[1].status = "OK"
          /\ Cardinality({i \in 1 .. Len(cacheLog) : cacheLog[i].op = "put"}) = 1
    /\ \A i \in 1 .. Len(reqLog) :
          reqLog[i].pagetoken # None => reqLog[i].source = "network"
    /\ \A k \in DOMAIN files :
          k.url = TextSearchUrl =>
              /\ "pagetoken" \notin DOMAIN k.params
              /\ Load(files[k]).response.status = "OK"

\* a first page was fetched and stored, and the OK page fetched with its
\* token left no trace in the cache
C9_Witness ==
    /\ Len(reqLog) >= 2
    /\ reqLog[1].source = "network"
    /\ reqLog[2].status = "OK"
    /\ Len(cacheLog) = 2
    /\ cacheLog[2].op = "put"
    /\ size(files) = 1

\* C10: a search_tile call resolves at most 3 page requests, page k exactly
\* once and in order; page 1 carries no token, and page k+1 is requested only
\* after page k came back OK with a next_page_token, which it carries
C10_PaginationInOrder ==
    /\ Len(reqLog) <= 3
    /\ \A i \in 1 .. Len(reqLog) : reqLog[i].page = i
    /\ Len(reqLog) >= 1 => reqLog[1].pagetoken = None
    /\ \A i \in 2 .. Len(reqLog) :
          /\ reqLog[i - 1].status = "OK"
          /\ reqLog[i - 1].token_out # None
          /\ reqLog[i].pagetoken = reqLog[i - 1].token_out

\* three pages were requested, the third with another token than the second
C10_Witness ==
    /\ Len(reqLog) = 3
    /\ reqLog[2].pagetoken # reqLog[3].pagetoken
    /\ call.pc = "returned"

Range(seq) == {seq[i] : i \in DOMAIN seq}

\* the place records the pages 1 .. n of the running call brought
Gathered(n) ==
    UNION {Range(reqLog[k].results) : k \in 1 .. n}

InRadius(supplied, place) ==
    supplied = AllSupplied => place.km <= max_radius_km

\* the ids a call owes its caller for these places: well-formed, in radius
\* and not in the identity set when the call began
Wanted(places, supplied, seen) ==
    {p.place_id : p \in {q \in places : /\ q.ok
                                        /\ InRadius(supplied, q)
                                        /\ q.place_id \notin seen}}

\* the call got through its filter-and-process loop
Processed ==
    /\ call.pc = "returned"
    /\ Len(reqLog) >= 1
    /\ reqLog[1].status = "OK"
    /\ reqLog[Len(reqLog)].status # "raised"

\* C11: a first page whose status is not OK makes search_tile return the
\* empty list and leave the identity set as it was; a later page whose
\* status is not OK is the last request of the call, and the call returns
\* what the pages before it owe the caller
C11_NonOkPage ==
    /\ (call.pc = "returned" /\ Len(reqLog) >= 1
           /\ reqLog[1].status \notin {"OK", "raised"})
          => /\ call.businesses = <<>>
             /\ _place_cache = call.seen0
    /\ \A i \in 2 .. Len(reqLog) :
          reqLog[i].status \notin {"OK", "raised"} =>
              /\ Len(reqLog) = i
              /\ call.pc \in {"process", "returned"}
              /\ call.pc = "returned" =>
                    Range(call.businesses)
                        = Wanted(Gathered(i - 1), call.supplied, call.seen0)

\* the second page came back INVALID_REQUEST and the places of the first
\* were returned
C11_Witness ==
    /\ call.pc = "returned"
    /\ Len(reqLog) = 2
    /\ reqLog[2].status = "INVALID_REQUEST"
    /\ call.businesses # <<>>

\* C13: with center_lat, center_lng and max_radius_km all supplied a
\* well-formed place not seen before is returned iff its distance is at most
\* max_radius_km, and a place beyond it does not enter the identity set;
\* with one of the three missing every such place is returned
C13_DistanceFilter ==
    Processed =>
        \A p \in Gathered(Len(reqLog)) :
            (p.ok /\ p.place_id \notin call.seen0) =>
                IF call.supplied = AllSupplied
                THEN /\ p.place_id \in Range(call.businesses)
                         <=> p.km <= max_radius_km
                     /\ p.km > max_radius_km => p.place_id \notin _place_cache
                ELSE p.place_id \in Range(call.businesses)

\* a filtered call returned the place on the boundary and dropped the one
\* beyond it
C13_Witness ==
    /\ Processed
    /\ call.supplied = AllSupplied
    /\ call.businesses = <<"p1">>
    /\ Place("p2", max_radius_km + 1) \in Gathered(Len(reqLog))
    /\ "p2" \notin _place_cache

\* C14: every radius sent is min(floor(base_radius * multiplier), 50000),
\* hence at most 50000, and for one tile a larger multiplier never sends a
\* smaller radius
C14_RadiusCapped ==
    /\ \A s \in radii :
          /\ s.radius = Min((s.tile.base_radius * s.mult2) \div 2, 50000)
          /\ s.radius <= 50000
    /\ \A s \in radii, t \in radii :
          (s.tile = t.tile /\ s.mult2 <= t.mult2) => s.radius <= t.radius

\* one tile was searched below the cap and, with a larger multiplier, at
\* the cap; another with a product that is not a whole number
C14_Witness ==
    /\ \E s \in radii, t \in radii :
          /\ s.tile = t.tile
          /\ s.mult2 < t.mult2
          /\ s.radius < t.radius
          /\ t.radius = 50000
    /\ \E u \in radii : (u.tile.base_radius * u.mult2) % 2 = 1

\* C15: a malformed record is never returned, and every well-formed,
\* in-radius, not-yet-seen place of a response that holds a malformed
\* record is returned by the call
C15_MalformedSkipped ==
    Processed =>
        /\ Malformed.place_id \notin Range(call.businesses)
        /\ \A k \in 1 .. Len(reqLog) :
              Malformed \in Range(reqLog[k].results) =>
                  \A p \in Range(reqLog[k].results) :
                      (p.ok /\ InRadius(call.supplied, p)
                            /\ p.place_id \notin call.seen0)
                          => p.place_id \in Range(call.businesses)

\* the place before the malformed record and the place after it were both
\* returned
C15_Witness ==
    /\ Processed
    /\ reqLog[1].results = <<Place("p1", max_radius_km), Malformed,
                             Place("p2", max_radius_km + 1)>>
    /\ call.businesses = <<"p1", "p2">>

\* C16: every request of the call carries the caller's query as it was
\* given, the tile center as location and the computed radius, and no
\* parameter besides these, the key and the page token
C16_QueryUnchanged ==
    \A i \in 1 .. Len(reqLog) :
        /\ reqLog[i].params.query = call.query
        /\ reqLog[i].params.location = call.tile.location
        /\ reqLog[i].params.radius = call.radius
        /\ DOMAIN reqLog[i].params
              \subseteq {"query", "location", "radius", "key", "pagetoken"}

\* a first page and a page-token page were both requested
C16_Witness ==
    /\ Len(reqLog) >= 2
    /\ reqLog[1].params.query = "cafe"
    /\ "pagetoken" \in DOMAIN reqLog[2].params
    /\ reqLog[2].params.query = "cafe"

\* C30: every network call of search_tile and of get_business_details is
\* preceded by a rate-limit wait, and every page-token request by the
\* propagation delay as well
C30_WaitsBeforeCalls ==
    /\ \A n \in DOMAIN reqLog :
          reqLog[n].source = "network" =>
              /\ "rate_limit" \in reqLog[n].waits
              /\ reqLog[n].pagetoken # None =>
                     "page_token_delay" \in reqLog[n].waits
    /\ (lastReq # NoOp /\ lastReq.source = "network") =>
           "rate_limit" \in lastReq.waits

\* the requests the network answered or failed, in both categories
NetworkCalls(us) == us.text_search_calls + us.place_details_calls

\* C37: a page request that raises is the last of its search_tile call; the
\* call returns the empty list and leaves the identity set as it found it,
\* also when earlier pages of the call were fetched
C37_RaiseReturnsEmpty ==
    \A i \in 1 .. Len(reqLog) :
        reqLog[i].status = "raised" =>
            /\ i = Len(reqLog)
            /\ call.pc = "returned"
            /\ call.businesses = <<>>
            /\ _place_cache = call.seen0

\* C37 witness: the first page brought places new to the identity set and
\* the request for the second page raised
C37_Witness ==
    /\ Len(reqLog) = 2
    /\ reqLog[1].status = "OK"
    /\ \E n \in DOMAIN reqLog[1].results :
          /\ reqLog[1].results[n] # Malformed
          /\ reqLog[1].results[n].place_id \notin call.seen0
    /\ reqLog[2].status = "raised"
    /\ call.pc = "returned"

\* C38: a first page served from the cache that carries a next_page_token
\* is followed by the request for that token; every request after the first
\* goes to the network and, when answered, is counted in text_search_calls;
\* such a call makes at most 2 network requests
C38_CacheHitKeepsPaging ==
    /\ [](Len(reqLog) >= 1 /\ reqLog[1].source = "cache" =>
             /\ (reqLog[1].token_out # None
                    /\ call.pc \in {"process", "returned"})
                   => Len(reqLog) >= 2
             /\ \A i \in 2 .. Len(reqLog) :
                   /\ reqLog[i].source = "network"
                   /\ reqLog[i].pagetoken = reqLog[i - 1].token_out
             /\ Cardinality({i \in 1 .. Len(reqLog) :
                                reqLog[i].source = "network"}) <= 2)
    /\ [][(/\ Len(reqLog') > Len(reqLog)
           /\ reqLog'[Len(reqLog')].pagetoken # None
           /\ reqLog'[Len(reqLog')].status # "raised")
          => /\ usage'.text_search_calls = usage.text_search_calls + 1
             /\ usage'.text_search_cache_hits
                    = usage.text_search_cache_hits]_vars

\* C38 witness: the first page came from the cache and two pages were then
\* fetched from the network
C38_Witness ==
    /\ Len(reqLog) = 3
    /\ reqLog[1].source = "cache"
    /\ reqLog[2].source = "network"
    /\ reqLog[3].source = "network"
    /\ reqLog[3].status = "OK"

\* C39: a response served from the cache was fetched from the network no
\* more than ttl_seconds before, and a cache file is written only in a step
\* that counts a network call
C39_HitNeverExtendsLife ==
    /\ [][(TotalRequests(usage') > TotalRequests(usage)
             /\ lastReq'.source = "cache")
          => /\ lastReq'.key \in DOMAIN fetched
             /\ now - fetched[lastReq'.key] <= ttl_seconds]_vars
    /\ [][(\E k \in DOMAIN files' :
              k \notin DOMAIN files \/ files'[k] # files[k])
          => /\ NetworkCalls(usage') = NetworkCalls(usage) + 1
             /\ lastReq'.source = "network"]_vars

\* C39 witness: a response is served from the cache after the clock moved
\* on from the network call that fetched it, and after an earlier hit
C39_Witness ==
    /\ lastReq # NoOp
    /\ lastReq.source = "cache"
    /\ lastReq.key \in DOMAIN fetched
    /\ now - fetched[lastReq.key] = ttl_seconds
    /\ usage.text_search_cache_hits + usage.place_details_cache_hits >= 2

----------------------------------------------------------------------------
(* Properties of the tile grid *)

\* the edges of the tiles along one axis, the far edge of the box left out
Edges(lo, hi, max) ==
    {tiles[i][lo] : i \in DOMAIN tiles}
        \cup ({tiles[i][hi] : i \in DOMAIN tiles} \ {max})

\* every cell the tile edges cut the box into lies in a tile
Covered(config) ==
    \A a \in Edges("min_lat", "max_lat", config.max_lat) \cup {config.min_lat},
       b \in Edges("min_lng", "max_lng", config.max_lng) \cup {config.min_lng} :
        \E i \in DOMAIN tiles :
            /\ tiles[i].min_lat <= a /\ a < tiles[i].max_lat
            /\ tiles[i].min_lng <= b /\ b < tiles[i].max_lng

C18_OverlapMonotone ==
    (gridLog.op = "create_grid" /\ gridLog.prev # NoGridCall
        /\ gridLog.prev.config = gridLog.grid.config
        /\ gridLog.prev.size = gridLog.grid.size) =>
        /\ gridLog.prev.overlap <= gridLog.grid.overlap
              => gridLog.prev.count <= gridLog.grid.count
        /\ gridLog.grid.overlap <= gridLog.prev.overlap
              => gridLog.grid.count <= gridLog.prev.count

\* the same box gridded with overlap 0 and then with overlap 0.1, which
\* made more tiles
C18_Witness ==
    /\ gridLog.op = "create_grid"
    /\ gridLog.prev # NoGridCall
    /\ gridLog.prev.config = gridLog.grid.config
    /\ gridLog.prev.overlap = 0
    /\ gridLog.grid.overlap = 10
    /\ gridLog.prev.count < gridLog.grid.count

ChildIds(tile) ==
    {tile.id \o "_nw", tile.id \o "_ne", tile.id \o "_sw", tile.id \o "_se"}

\* C19: subdivide_tile(t) puts four children where t was, in the order NW,
\* NE, SW, SE, each a quadrant of t about its midpoint, so the list grows by
\* 3; the index loses t's id and gains the four child ids; every other tile
\* and index entry stays as it was
C19_SubdivideInPlace ==
    gridLog.op = "subdivide_tile" =>
        LET t   == gridLog.tile
            idx == gridLog.idx
            old == gridLog.before
            nw  == tiles[idx]
            ne  == tiles[idx + 1]
            sw  == tiles[idx + 2]
            se  == tiles[idx + 3]
        IN  /\ total_tiles(tiles) = total_tiles(old) + 3
            /\ \A j \in 1 .. idx - 1 : tiles[j] = old[j]
            /\ \A j \in idx + 1 .. Len(old) : tiles[j + 3] = old[j]
            /\ <<nw.id, ne.id, sw.id, se.id>>
                  = <<t.id \o "_nw", t.id \o "_ne", t.id \o "_sw",
                      t.id \o "_se">>
            /\ \A c \in {nw, ne} :
                  c.max_lat = t.max_lat /\ 2 * c.min_lat = t.min_lat + t.max_lat
            /\ \A c \in {sw, se} :
                  c.min_lat = t.min_lat /\ 2 * c.max_lat = t.min_lat + t.max_lat
            /\ \A c \in {nw, sw} :
                  c.min_lng = t.min_lng /\ 2 * c.max_lng = t.min_lng + t.max_lng
            /\ \A c \in {ne, se} :
                  c.max_lng = t.max_lng /\ 2 * c.min_lng = t.min_lng + t.max_lng
            /\ DOMAIN _tile_map
                  = (DOMAIN gridLog.map_before \ {t.id}) \cup ChildIds(t)
            /\ \A c \in {nw, ne, sw, se} : _tile_map[c.id] = c
            /\ \A id \in DOMAIN gridLog.map_before \ ({t.id} \cup ChildIds(t)) :
                  _tile_map[id] = gridLog.map_before[id]

\* the first of two tiles was subdivided and the second, already searched,
\* moved to the fifth place
C19_Witness ==
    /\ gridLog.op = "subdivide_tile"
    /\ gridLog.idx = 1
    /\ Len(tiles) = 5
    /\ tiles[5].searched
    /\ tiles[5] = gridLog.before[2]

\* C35: the tile ids are pairwise distinct and get_tile(id) returns a tile
\* exactly for the ids of the current tile list
C35_IndexMatchesList ==
    /\ \A i, j \in DOMAIN tiles : tiles[i].id = tiles[j].id => i = j
    /\ \A tile_id \in DOMAIN _tile_map \cup {tiles[i].id : i \in DOMAIN tiles} :
        get_tile(_tile_map, tile_id) # Miss
            <=> \E i \in DOMAIN tiles : tiles[i].id = tile_id

----------------------------------------------------------------------------
(* Properties of the run *)

NoDuplicates(seq) ==
    \A i \in DOMAIN seq, j \in DOMAIN seq : seq[i] = seq[j] => i = j

\* C12: over the run of one scraper instance no place_id is returned twice
\* by search_tile nor appended twice to job.businesses, and no step, the
\* reset for a rescan included, takes an id out of either identity set
C12_EmittedOnce ==
    /\ [](/\ NoDuplicates(returned)
           /\ job # NoJob => NoDuplicates(job.businesses))
    /\ [][/\ _place_cache \subseteq _place_cache'
           /\ seen_place_ids \subseteq seen_place_ids']_vars

\* in an expansion pass a call gathers a place that was emitted in an
\* earlier pass
C12_Witness ==
    /\ wk.pc = "query"
    /\ wk.expansion_count >= 1
    /\ wk.q = 2
    /\ \E p \in Range(wk.places) : p.ok /\ p.place_id \in wk.seen0
    /\ Len(job.businesses) >= 1
    /\ NoDuplicates(job.businesses)

\* C20: no step of the run lowers progress = searched tiles / total tiles
C20_ProgressMonotone ==
    [][progress(tiles').num * progress(tiles).den
           >= progress(tiles).num * progress(tiles').den]_vars

\* the job is under way: scrape_worker has its frame
Started == wk.pc \notin {"idle", "crashed"}

\* this step is a search_tile call of the worker
SearchTileCalled ==
    wk.pc = "query" /\ wk'.pc = "query" /\ wk'.q = wk.q + 1

\* this step ends a pass by starting the next one
Expanded == wk.pc = "after_pass" /\ wk'.pc = "pass"

\* C22: whatever the tiles, the answers of the API and the target, the loop
\* makes at most max_expansions + 1 = 5 passes over the tile list, calls
\* search_tile at most once for each (tile, query) pair in a pass, and ends
C22_Terminates ==
    /\ [](Started =>
             /\ wk.passes <= 5
             /\ NoDuplicates(wk.calls)
             /\ Len(wk.calls) <= Len(tiles) * Len(wk.queries_to_try))
    /\ (Started ~> wk.pc = "done")

\* a run of five passes over five tiles ended short of its target
C22_Witness ==
    /\ Started
    /\ wk.pc = "done"
    /\ wk.passes = 5
    /\ Len(tiles) = 5
    /\ Len(wk.calls) = 5
    /\ job.current_count < job.target_count

\* C23: the multiplier is increased and a new pass started only when, in the
\* pass that ends, the run of consecutive empty tiles reached the threshold
\* while the count was below the target and the multiplier below its
\* largest value
C23_ExpandOnlyOnEmptyRun ==
    [][Expanded =>
          /\ wk.empty_tile_count >= max_empty_tiles(tiles)
          /\ job.current_count < job.target_count
          /\ wk.api_radius_multiplier < 6]_vars

\* C24: each expansion adds exactly 0.5 (one half) to the multiplier and one
\* to the expansion counter, and before the first tile of the new pass is
\* searched every tile is unsearched with business_count 0 and the run of
\* empty tiles is 0
C24_ExpansionResets ==
    /\ [][Expanded =>
             /\ wk'.api_radius_multiplier = wk.api_radius_multiplier + 1
             /\ wk'.expansion_count = wk.expansion_count + 1]_vars
    /\ [](/\ Started
          /\ wk.pc \in {"tile", "query"}
          /\ wk.expansion_count >= 1
          /\ wk.calls = <<>>
          => /\ \A n \in DOMAIN tiles :
                   ~tiles[n].searched /\ tiles[n].business_count = 0
             /\ wk.empty_tile_count = 0
             /\ wk.api_radius_multiplier = 2 + wk.expansion_count)

\* the second pass is about to search its first tile, and the pass before
\* had marked a tile searched with a count above 0
C24_Witness ==
    /\ Started
    /\ wk.pc = "query"
    /\ wk.expansion_count = 1
    /\ wk.api_radius_multiplier = 3
    /\ wk.calls = <<>>
    /\ gridLog.op = "pass"
    /\ \E n \in DOMAIN gridLog.before :
          gridLog.before[n].searched /\ gridLog.before[n].business_count > 0

\* C25: once the count has reached the target no search_tile call is made,
\* neither for the remaining queries of the tile nor for a later tile or
\* pass, and the worker's next look at the target ends the run completed
C25_StopsAtTarget ==
    /\ [][SearchTileCalled => job.current_count < job.target_count]_vars
    /\ [][(/\ wk.pc = "after_pass"
           /\ job.current_count >= job.target_count
           /\ wk'.pc # wk.pc)
          => wk'.pc = "done" /\ job'.status = "completed"]_vars

\* this step is the break at the empty-tile threshold with the multiplier
\* at its largest value
AutoStopped ==
    /\ wk.pc = "query"
    /\ wk.q > Len(wk.queries_to_try)
    /\ ~wk.tile_found_businesses
    /\ wk.empty_tile_count + 1 >= max_empty_tiles(tiles)
    /\ wk.api_radius_multiplier >= 6
    /\ wk'.pc # wk.pc

\* this step is the worker's after a pass with the multiplier at its largest
\* value or the expansion counter at its cap
Exhausted ==
    /\ wk.pc = "after_pass"
    /\ wk.api_radius_multiplier >= 6 \/ wk.expansion_count >= 4
    /\ wk'.pc # wk.pc

\* C26: at the empty-tile threshold with the multiplier at its largest
\* value, and after a pass with the multiplier there or the expansion
\* counter at its cap, the run searches no further and ends 'completed' with
\* every business it had; the multiplier never exceeds 3.0 (6 halves), the
\* expansion counter never 4, and the status is never 'error'
C26_StopsAtCaps ==
    /\ [](Started =>
             /\ wk.api_radius_multiplier <= 6
             /\ wk.expansion_count <= 4
             /\ job.status # "error")
    /\ [][AutoStopped =>
             /\ wk'.pc = "after_pass"
             /\ job'.businesses = job.businesses]_vars
    /\ [][Exhausted =>
             /\ wk'.pc = "done"
             /\ job'.status = "completed"
             /\ job'.businesses = job.businesses]_vars

\* five empty tiles in a row in the pass at 3.0 ended a run that had
\* found a business and was short of its target
C26_Witness ==
    /\ Started
    /\ wk.pc = "done"
    /\ job.status = "completed"
    /\ wk.api_radius_multiplier = 6
    /\ wk.expansion_count = 4
    /\ wk.empty_tile_count = 5
    /\ Len(job.businesses) >= 1
    /\ job.current_count < job.target_count

IsPrefix(a, b) == Len(a) <= Len(b) /\ a = SubSeq(b, 1, Len(a))

\* C27: once the stop flag is set the worker starts no tile, its next look
\* at the flag ends it, the status is never 'error', and the businesses
\* gathered stay in job.businesses
C27_StopFlag ==
    /\ [][_stop_flags =>
             /\ ~(wk.pc = "tile" /\ wk'.pc = "query")
             /\ (wk.pc = "tile" /\ wk.i <= Len(tiles) /\ wk'.pc # wk.pc)
                    => wk'.pc = "done"
             /\ IsPrefix(job.businesses, job'.businesses)]_vars
    /\ [](Started => job.status # "error")

\* the flag was set while the first tile was searched: the tile was finished
\* and marked, the second was not started, the business found is kept
C27_Witness ==
    /\ _stop_flags
    /\ wk.pc = "done"
    /\ job.status = "paused"
    /\ wk.i = 2
    /\ wk.i <= Len(tiles)
    /\ wk.passes = 1
    /\ tiles[1].searched
    /\ Len(job.businesses) >= 1

\* the number of zeros a sequence of counts ends with
RECURSIVE TrailingZeros(_)
TrailingZeros(counts) ==
    IF counts = <<>> \/ counts[Len(counts)] # 0 THEN 0
    ELSE 1 + TrailingZeros(SubSeq(counts, 1, Len(counts) - 1))

\* min >= max on an axis
invalid_box(config) ==
    \/ config.min_lat >= config.max_lat
    \/ config.min_lng >= config.max_lng

\* C31: a run without the API credential, or over a box with min >= max on
\* an axis, never calls search_tile and ends with the job in status 'error'
C31_ConfigErrorsFatal ==
    (/\ wk.pc # "idle"
     /\ ~_stop_flags
     /\ \/ invalid_box(wk.config)
        \/ Started /\ wk.api_key = None)
        => /\ Started => wk.calls = <<>>
           /\ wk.pc \in {"done", "crashed"} => job.status = "error"

C40_StoppedNeverCompleted ==
    (Started /\ wk.stopped_at \in {"tile", "query"} /\ wk.pc = "done")
        => job.status = "paused"

----------------------------------------------------------------------------
(* Properties of the usage statistics *)

\* C21: the estimated cost is 32.00 * text_search_calls / 1000 + 17.00 *
\* place_details_calls / 1000 and the estimated savings the same over the
\* cache-hit counters (amounts in 1/10000 USD): zero counters give 0, 1000
\* calls of each category give 49.0, and the savings equal the cost when
\* each category's cache hits equal its calls
C21_CostFormula ==
    report # NoOp =>
        /\ report.estimated_cost_usd =
               320 * usage.text_search_calls + 170 * usage.place_details_calls
        /\ report.estimated_savings_usd =
               320 * usage.text_search_cache_hits
                   + 170 * usage.place_details_cache_hits
        /\ usage = APIUsageStats =>
               /\ report.estimated_cost_usd = 0
               /\ report.estimated_savings_usd = 0
        /\ (usage.text_search_calls = 1000 /\ usage.place_details_calls = 1000)
               => report.estimated_cost_usd = 490000
        /\ (/\ usage.text_search_cache_hits = usage.text_search_calls
            /\ usage.place_details_cache_hits = usage.place_details_calls)
               => report.estimated_savings_usd = report.estimated_cost_usd

\* 1000 calls of each category and 500 hits of each were priced
C21_Witness ==
    /\ report # NoOp
    /\ usage.text_search_calls = 1000
    /\ usage.place_details_calls = 1000
    /\ usage.text_search_cache_hits = 500
    /\ usage.place_details_cache_hits = 500
    /\ report.estimated_cost_usd = 490000
    /\ report.estimated_savings_usd = 245000

----------------------------------------------------------------------------
(* Properties of the rate limiter *)

InFlight == {c \in Callers : limiter.pc[c] = "calling"}

\* C28: under any interleaving of the acquire() callers the permits are
\* granted one at a time, at most one caller being between taking the lock
\* and its grant, and each grant's last_request_time is at least the
\* previous grant's plus min_delay
C28_GrantsSpaced ==
    /\ Cardinality({c \in Callers : limiter.pc[c] = "sleep"}) <= 1
    /\ limiter._lock <=> \E c \in Callers : limiter.pc[c] = "sleep"
    /\ \A n \in 2 .. Len(grants) :
          grants[n].at >= grants[n - 1].at + min_delay
    /\ grants # <<>> =>
          limiter.last_request_time = <<grants[Len(grants)].at>>

\* with two permits of the semaphore out, a caller slept inside the lock
\* while another waited for it, and both were granted
C28_Witness ==
    /\ limiter.max_concurrent = 2
    /\ Len(grants) >= 3
    /\ grants[2].caller # grants[1].caller
    /\ grants[2].at = grants[1].at + min_delay
    /\ \E c \in Callers : limiter.pc[c] = "sleep"
    /\ \E c \in Callers : limiter.pc[c] = "lock"

\* C29: with max_concurrent = 1, while a caller that was granted a permit
\* has not finished its outbound call no other caller is granted one
C29_OneInFlight ==
    limiter.max_concurrent = 1 => Cardinality(InFlight) <= 1

----------------------------------------------------------------------------
(* Properties of the business store *)

\* C32: a store made over an output directory that save() has written to
\* treats the saved place_ids as existing: add of a business with one of
\* them returns False and leaves the stored records as they were
C32_PriorRunsDeduplicated ==
    (lastAdd # NoOp /\ lastAdd.place_id \in business_store.prior) =>
        /\ lastAdd.ret = FALSE
        /\ business_store.businesses = lastAdd.before

----------------------------------------------------------------------------
(* Properties of create_grid in floating point *)

\* C36: on each axis the scan coordinate strictly increases from one turn of
\* the loop to the next
C36_ScanAdvances ==
    [][/\ (scan.pc = "col" /\ scan.lng < scan.config.max_lng)
           => scan'.lng > scan.lng
       /\ scan.pc = "next_row" => scan'.lat > scan.lat]_vars

====
